---- MODULE Spec2Model ----
(***************************************************************************)
(* Model of the seeding scripts of youtube_search_clone:                   *)
(*   scripts/seed.py               multi-source harvest, merge, load       *)
(*   scripts/seed_agnews_remote.py bulk import of the AG News snapshot     *)
(*                                                                         *)
(* The module holds one state machine per component, each with its own     *)
(* specification over the shared variable list:                            *)
(*   SpecDedup    the deduplication step of both scripts                   *)
(*   SpecLoader   insert_worlds_to_db of both scripts against the store    *)
(*   SpecSched    the harvest scheduler of seed.py main                    *)
(*   SpecPoll     the polling adapters of seed.py (quotable, facts,        *)
(*                zenquotes)                                               *)
(*   SpecPool     the pooled adapters of seed.py (arxiv, wikipedia,        *)
(*                google books)                                            *)
(*   SpecBulk     main and download_agnews of seed_agnews_remote.py        *)
(*   SpecRuns     seed_agnews_remote.py run several times in a row         *)
(*   SpecWiki     the content requests of the wikipedia adapters of        *)
(*                seed.py                                                  *)
(* A string is a sequence of one-character strings; a candidate or record  *)
(* is the pair <<title, description>>, as the Python tuples are.           *)
(***************************************************************************)
EXTENDS Integers, Sequences, FiniteSets, Bags, TLC

VARIABLES
    \* ---- deduplication step
    d_script,        \* "seed" | "agnews": which script's dedup step runs
    d_input,         \* seed: all_data; agnews: the decoded lines of the file
    d_pairs,         \* agnews: raw_pairs returned by load_agnews_pairs
    d_out,           \* unique_worlds / unique_pairs
    d_duplicates,    \* seed: the duplicates counter
    d_pc,            \* "input" | "parsed" | "deduped"
    \* ---- batch loader and store
    l_script,        \* "seed" | "agnews": which insert_worlds_to_db runs
    worlds,          \* the argument of insert_worlds_to_db
    table,           \* committed rows of the worlds table, a bag: row -> count
    tx_table,        \* the table as the open transaction of conn sees it
    tx_deleted,      \* the open transaction has executed DELETE FROM worlds
    tx_rows,         \* number of INSERTs the open transaction has executed
    old_rows,        \* the rows the table held when the loader was called
    commits,         \* per commit since connect: the number of rows it inserted
    l_i,             \* the loop variable i of the batch loop
    l_j,             \* seed: rows of the current batch already executed
    l_count,         \* seed: the result of SELECT COUNT(*), or -1
    conn,            \* "none" | "open" | "closed" | "dropped"
    l_pc,            \* position in insert_worlds_to_db; once it has ended on
                     \* an error or a kill, the statement that was to run
    l_exit,          \* "running" | "returned" | "returned_after_error" |
                     \* "exit1" | "killed"
    l_sent,          \* the rows of the INSERTs executed since the call, in order
    \* ---- harvest scheduler
    s_parallel,      \* config['parallel']
    s_config,        \* the set of configured sources
    s_outcome,       \* source -> what its adapter does when run
    s_task,          \* source -> "idle" | "running" | "done" | "raised"
    s_result,        \* source -> the list main holds for it
    s_collect,       \* parallel: index of the future main waits for
    s_all_data,      \* all_data
    s_handed,        \* the argument of insert_worlds_to_db, or NotCalled
    s_pc,            \* position in main
    \* ---- source adapter
    a_kind,          \* which adapter runs
    target_count,    \* its argument
    a_items,         \* the accumulator (papers, articles, books, quotes, facts)
    a_seen,          \* seen_titles / seen_quotes / seen_facts
    attempts,        \* polling adapters: the attempts counter
    request_count,   \* scrape_zenquotes: request_count
    a_requests,      \* requests issued to the provider so far
    a_offered,       \* valid items the provider has answered so far
    a_waits,         \* polling adapters: the pacing wait after each request
    a_group,         \* pooled adapters: index of the category / subject
    a_pending,       \* pooled adapters: number of submitted tasks still running
    a_fetched,       \* pooled adapters: number of finished tasks not yet collected
    a_access,        \* pooled adapters: accesses to the shared lists so far
    a_pc,            \* position in the adapter
    a_returned,      \* the returned list, or NotReturned
    \* ---- bulk import pipeline
    b_run,           \* the number of the run of the script
    b_args,          \* the parsed command line: force_download, download_only,
                     \* shuffle, limit
    b_lines,         \* the decoded lines of the complete snapshot file
    b_file0,         \* the file at output_path when the run started
    b_file,          \* the file at output_path: "missing" | "old" | "new" |
                     \* "partial"
    b_requests,      \* network requests issued so far
    raw_pairs,       \* raw_pairs
    b_deduped,       \* the list deduplicate_by_title returned
    unique_pairs,    \* unique_pairs, shuffled in place when requested
    final_pairs,     \* final_pairs
    b_warned,        \* the warning of the limit step was logged
    b_loaded,        \* the argument of insert_worlds_to_db, or NotCalled
    b_steps,         \* the steps main has run so far, in order
    b_pc,            \* position in main
    b_exit,          \* "running" | "exit0" | "exit1" | "traceback"
    \* ---- content requests of the wikipedia adapters
    w_kind,          \* "bulk": fetch_wikipedia_batch_optimized; "books":
                     \* scrape_wikipedia_books
    page_ids,        \* page_ids, or titles: what extracts are asked for
    w_i,             \* the loop variable i of the loop over the slices
    w_requests,      \* the content requests sent so far: the ids or titles
                     \* of each, and how it was answered
    w_pc             \* "loop" | "done" | "raised"

dvars == <<d_script, d_input, d_pairs, d_out, d_duplicates, d_pc>>
lvars == <<l_script, worlds, table, tx_table, tx_deleted, tx_rows, old_rows,
           commits, l_i, l_j, l_count, conn, l_pc, l_exit, l_sent>>
svars == <<s_parallel, s_config, s_outcome, s_task, s_result, s_collect,
           s_all_data, s_handed, s_pc>>
avars == <<a_kind, target_count, a_items, a_seen, attempts, request_count,
           a_requests, a_offered, a_waits, a_group, a_pending, a_fetched,
           a_access, a_pc, a_returned>>
bvars == <<b_run, b_args, b_lines, b_file0, b_file, b_requests, raw_pairs, b_deduped,
           unique_pairs, final_pairs, b_warned, b_loaded, b_steps, b_pc, b_exit>>
wvars == <<w_kind, page_ids, w_i, w_requests, w_pc>>
vars == <<dvars, lvars, svars, avars, bvars, wvars>>

(***************************************************************************)
(* Strings.                                                                *)
(***************************************************************************)
\* str.isspace on the characters used here
IsSpace(c) == c \in {" ", "\n"}

\* str.lower, one character
LowerChar(c) ==
    CASE c = "A" -> "a"
      [] c = "B" -> "b"
      [] c = "P" -> "p"
      [] c = "W" -> "w"
      [] c = "G" -> "g"
      [] c = "Q" -> "q"
      [] c = "F" -> "f"
      [] c = "Z" -> "z"
      [] c = "K" -> "k"
      [] OTHER -> c

\* str.lower
Lower(s) == [k \in 1..Len(s) |-> LowerChar(s[k])]

RECURSIVE LStrip(_)
LStrip(s) == IF s # <<>> /\ IsSpace(Head(s)) THEN LStrip(Tail(s)) ELSE s

RECURSIVE RStrip(_)
RStrip(s) ==
    IF s # <<>> /\ IsSpace(s[Len(s)]) THEN RStrip(SubSeq(s, 1, Len(s) - 1)) ELSE s

\* str.strip
Strip(s) == RStrip(LStrip(s))

\* truth value of a Python string
Truthy(s) == s # <<>>

\* all sequences over S of length 0..n
RECURSIVE SeqsUpTo(_, _)
SeqsUpTo(S, n) ==
    IF n = 0 THEN {<<>>}
    ELSE LET shorter == SeqsUpTo(S, n - 1)
         IN  shorter \cup {Append(q, x) : q \in shorter, x \in S}

(***************************************************************************)
(* Deduplication step.                                                     *)
(*   seed.py main, the merge loop          (seed.py 1024-1038)             *)
(*   seed_agnews_remote.py                 load_agnews_pairs,              *)
(*                                         deduplicate_by_title            *)
(***************************************************************************)
\* the dedup step runs over lists of at most MaxInput candidates or lines
MaxInput == 3

\* titles and descriptions a provider may hand to seed.py
SeedTitles == {<<"A">>, <<"a">>, <<"A", " ">>, <<"B">>}
SeedDescs == {<<"x">>, <<" ", "x", " ">>, <<"y">>, <<" ">>, <<>>}
SeedCandidates == {<<t, d>> : t \in SeedTitles, d \in SeedDescs}

\* lines of the snapshot file: a JSON array of two strings, or a line that
\* is empty, is not JSON ("badjson"), is JSON of another shape ("short"), or
\* holds bytes that are not UTF-8 text ("undecodable")
AgRawTitles == {<<"A">>, <<"a">>, <<" ", "A">>, <<"B">>, <<" ">>}
AgRawDescs == {<<"x">>, <<"x", " ", "\n", "y">>, <<>>}
AgLines ==
    {[kind |-> "pair", title |-> t, desc |-> d] : t \in AgRawTitles, d \in AgRawDescs}
    \cup {[kind |-> k, title |-> <<>>, desc |-> <<>>] : k \in {"empty", "badjson", "short", "undecodable"}}

\* index of the first whitespace of t, or Len(t) + 1
FirstSpace(t) ==
    IF \E k \in 1..Len(t) : IsSpace(t[k])
    THEN CHOOSE k \in 1..Len(t) :
             IsSpace(t[k]) /\ \A m \in 1..(k - 1) : ~IsSpace(t[m])
    ELSE Len(t) + 1

\* str.split() without arguments
RECURSIVE SplitWords(_)
SplitWords(s) ==
    LET t == LStrip(s) IN
    IF t = <<>> THEN <<>>
    ELSE LET n == FirstSpace(t)
         IN  <<SubSeq(t, 1, n - 1)>> \o SplitWords(SubSeq(t, n, Len(t)))

\* " ".join(words)
RECURSIVE JoinSpace(_)
JoinSpace(words) ==
    IF words = <<>> THEN <<>>
    ELSE IF Len(words) = 1 THEN words[1]
    ELSE words[1] \o <<" ">> \o JoinSpace(Tail(words))

\* the normalization that only trims
normalize_text_StripOnly(text) == Strip(text)
\* normalize_text: strip, then " ".join(text.split())
normalize_text(text) == JoinSpace(SplitWords(Strip(text)))

\* one iteration of the loop of load_agnews_pairs over a decoded line
LoadLine(pairs, line) ==
    IF line.kind # "pair" THEN pairs
    ELSE LET title == normalize_text(line.title)
             description == normalize_text(line.desc)
         IN  IF ~Truthy(title) \/ ~Truthy(description) THEN pairs
             ELSE Append(pairs, <<title, description>>)

RECURSIVE LoadFrom(_, _, _)
LoadFrom(lines, k, pairs) ==
    IF k > Len(lines) THEN pairs
    ELSE LoadFrom(lines, k + 1, LoadLine(pairs, lines[k]))

\* the list load_agnews_pairs returns, when it returns
load_agnews_pairs(lines) == LoadFrom(lines, 1, <<>>)

\* load_agnews_pairs does not return: the text reader of gzip.open raises
\* UnicodeDecodeError at a line that is not UTF-8, the handler of Exception
\* logs it and calls sys.exit(1)
ReadAborts(lines) == \E k \in 1..Len(lines) : lines[k].kind = "undecodable"

\* the key without the lower-casing
title_lower_NoLower(title) == title
\* the key of the merge loop of seed.py: title_lower = title.lower()
title_lower(title) == Lower(title)

\* the iteration with seen.add ahead of the test of desc
MergeStep_ReserveKey(st, c) ==
    IF title_lower(c[1]) \notin st.seen
    THEN [seen |-> st.seen \cup {title_lower(c[1])},
          unique_worlds |-> IF Truthy(c[2]) THEN Append(st.unique_worlds, c)
                            ELSE st.unique_worlds,
          duplicates |-> IF Truthy(c[2]) THEN st.duplicates ELSE st.duplicates + 1]
    ELSE [st EXCEPT !.duplicates = @ + 1]
\* the iteration that counts a drop only when the key was seen before
MergeStep_CountSeenOnly(st, c) ==
    IF title_lower(c[1]) \notin st.seen /\ Truthy(c[2])
    THEN [seen |-> st.seen \cup {title_lower(c[1])},
          unique_worlds |-> Append(st.unique_worlds, c),
          duplicates |-> st.duplicates]
    ELSE IF title_lower(c[1]) \in st.seen THEN [st EXCEPT !.duplicates = @ + 1]
    ELSE st
\* one iteration of the merge loop of seed.py
MergeStep(st, c) ==
    IF title_lower(c[1]) \notin st.seen /\ Truthy(c[2])
    THEN [seen |-> st.seen \cup {title_lower(c[1])},
          unique_worlds |-> Append(st.unique_worlds, c),
          duplicates |-> st.duplicates]
    ELSE [st EXCEPT !.duplicates = @ + 1]

RECURSIVE MergeFrom(_, _, _)
MergeFrom(all_data, k, st) ==
    IF k > Len(all_data) THEN st
    ELSE MergeFrom(all_data, k + 1, MergeStep(st, all_data[k]))

\* the merge loop started at the second candidate
MergeLoop_SkipFirst(all_data) ==
    MergeFrom(all_data, 2, [seen |-> {}, unique_worlds |-> <<>>, duplicates |-> 0])
\* the merge loop of seed.py: seen, unique_worlds and duplicates at its end
MergeLoop(all_data) ==
    MergeFrom(all_data, 1, [seen |-> {}, unique_worlds |-> <<>>, duplicates |-> 0])

\* the key of deduplicate_by_title: key = title.lower()
key(title) == Lower(title)

\* one iteration of the loop of deduplicate_by_title
UniqueStep(st, p) ==
    IF key(p[1]) \in st.seen THEN st
    ELSE [seen |-> st.seen \cup {key(p[1])}, unique |-> Append(st.unique, p)]

RECURSIVE UniqueFrom(_, _, _)
UniqueFrom(pairs, k, st) ==
    IF k > Len(pairs) THEN st
    ELSE UniqueFrom(pairs, k + 1, UniqueStep(st, pairs[k]))

deduplicate_by_title(pairs) ==
    UniqueFrom(pairs, 1, [seen |-> {}, unique |-> <<>>]).unique

DInit ==
    /\ d_script \in {"seed", "agnews"}
    /\ d_input \in IF d_script = "seed" THEN SeqsUpTo(SeedCandidates, MaxInput)
                   ELSE SeqsUpTo(AgLines, MaxInput)
    /\ d_pairs = <<>>
    /\ d_out = <<>>
    /\ d_duplicates = 0
    /\ d_pc = "input"

DIdle ==
    /\ d_script = "seed"
    /\ d_input = <<>>
    /\ d_pairs = <<>>
    /\ d_out = <<>>
    /\ d_duplicates = 0
    /\ d_pc = "idle"

\* seed.py main: the merge loop over all_data
SeedMerge ==
    /\ UNCHANGED <<lvars, svars, avars, bvars, wvars>>
    /\ d_script = "seed"
    /\ d_pc = "input"
    /\ d_out' = MergeLoop(d_input).unique_worlds
    /\ d_duplicates' = MergeLoop(d_input).duplicates
    /\ d_pc' = "deduped"
    /\ UNCHANGED <<d_script, d_input, d_pairs>>

\* seed_agnews_remote.py main, step 2: load the file, exit when nothing loaded
AgnewsLoad ==
    /\ UNCHANGED <<lvars, svars, avars, bvars, wvars>>
    /\ d_script = "agnews"
    /\ d_pc = "input"
    /\ d_pairs' = IF ReadAborts(d_input) THEN d_pairs ELSE load_agnews_pairs(d_input)
    /\ d_pc' = IF ReadAborts(d_input) \/ d_pairs' = <<>> THEN "exit1" ELSE "parsed"
    /\ UNCHANGED <<d_script, d_input, d_out, d_duplicates>>

\* seed_agnews_remote.py main, step 3
AgnewsDedup ==
    /\ UNCHANGED <<lvars, svars, avars, bvars, wvars>>
    /\ d_script = "agnews"
    /\ d_pc = "parsed"
    /\ d_out' = deduplicate_by_title(d_pairs)
    /\ d_pc' = "deduped"
    /\ UNCHANGED <<d_script, d_input, d_pairs, d_duplicates>>

DNext == SeedMerge \/ AgnewsLoad \/ AgnewsDedup

(***************************************************************************)
(* Batch loader and store.                                                 *)
(*   seed.py                insert_worlds_to_db (643-726)                  *)
(*   seed_agnews_remote.py  insert_worlds_to_db (200-243)                  *)
(* The store is the worlds table behind one psycopg2 connection: the       *)
(* statements of the connection act on the transaction's view tx_table,    *)
(* commit publishes the view, rollback or the loss of the connection       *)
(* discards it. A row is a natural number standing for one                 *)
(* (title, description) pair; row 0 is a pair no record list contains.     *)
(***************************************************************************)
\* record lists of up to MaxBatches full batches and a partial one, their
\* rows repeating with period RowPeriod
MaxBatches == 2
RowPeriod == 3

batch_size_seed == 100
batch_size_agnews == 1000
batch_size(script) == IF script = "seed" THEN batch_size_seed ELSE batch_size_agnews

\* the bag of the elements of a sequence
BagOfSeq(q) ==
    LET R == {q[k] : k \in DOMAIN q}
    IN  [v \in R |-> Cardinality({k \in DOMAIN q : q[k] = v})]

\* record lists of n rows, the rows repeating with period RowPeriod
WorldsOfLen(n) == [k \in 1..n |-> ((k - 1) % RowPeriod) + 1]

\* lengths around every multiple of the batch size B
WorldsLens(B) == {q * B + r : q \in 0..MaxBatches, r \in {0, 1, B \div 2, B - 1}}

\* what the table may hold before the call: nothing, or rows of an earlier
\* load, one of them equal to a record of the new list
OldTables == {EmptyBag, (1 :> 1) @@ (0 :> 2)}

Min(a, b) == IF a < b THEN a ELSE b

\* the slice one element too long
Batch_Overlap(ws, i, B) == SubSeq(ws, i + 1, Min(i + B + 1, Len(ws)))
\* batch = worlds[i:i+batch_size]
Batch(ws, i, B) == SubSeq(ws, i + 1, Min(i + B, Len(ws)))

LInit ==
    /\ l_script \in {"seed", "agnews"}
    /\ worlds \in {WorldsOfLen(n) : n \in WorldsLens(batch_size(l_script))}
    /\ table \in OldTables
    /\ tx_table = table
    /\ tx_deleted = FALSE
    /\ tx_rows = 0
    /\ old_rows = table
    /\ commits = <<>>
    /\ l_i = 0
    /\ l_j = 0
    /\ l_count = -1
    /\ conn = "none"
    /\ l_pc = "connect"
    /\ l_exit = "running"
    /\ l_sent = <<>>

LIdle ==
    /\ l_script = "seed"
    /\ worlds = <<>>
    /\ table = EmptyBag
    /\ tx_table = EmptyBag
    /\ tx_deleted = FALSE
    /\ tx_rows = 0
    /\ old_rows = EmptyBag
    /\ commits = <<>>
    /\ l_i = 0
    /\ l_j = 0
    /\ l_count = -1
    /\ conn = "none"
    /\ l_pc = "idle"
    /\ l_exit = "idle"
    /\ l_sent = <<>>

\* the handler with conn.commit() in the place of conn.rollback()
OnDbError_Commit ==
    /\ table' = tx_table
    /\ tx_table' = tx_table
    /\ tx_deleted' = FALSE
    /\ tx_rows' = 0
    /\ conn' = IF conn = "none" THEN "none"
               ELSE IF l_script = "seed" THEN "closed" ELSE "dropped"
    /\ l_exit' = IF l_script = "seed" THEN "returned_after_error" ELSE "exit1"
    /\ UNCHANGED <<l_script, worlds, old_rows, commits, l_i, l_j, l_count, l_pc, l_sent>>

\* A statement, commit or connect raised inside the try block.
\*   seed.py 720-726: except Exception: log; if 'conn' in locals():
\*            conn.rollback(); conn.close(); the function then returns.
\*   seed_agnews_remote.py 241-243: except psycopg2.Error: sys.exit(1); the
\*            process ends with the connection open, the server discards the
\*            open transaction.
OnDbError ==
    /\ tx_table' = table
    /\ tx_deleted' = FALSE
    /\ tx_rows' = 0
    /\ conn' = IF conn = "none" THEN "none"
               ELSE IF l_script = "seed" THEN "closed" ELSE "dropped"
    /\ l_exit' = IF l_script = "seed" THEN "returned_after_error" ELSE "exit1"
    /\ UNCHANGED <<l_script, worlds, table, old_rows, commits, l_i, l_j, l_count, l_pc, l_sent>>

\* position after the loop head range(0, len(worlds), batch_size) is evaluated
LoopHead(i) ==
    IF i < Len(worlds) THEN "insert"
    ELSE IF l_script = "seed" THEN "count" ELSE "close"

\* conn = psycopg2.connect(**DB_PARAMS); cur = conn.cursor()
Connect(ok) ==
    /\ UNCHANGED <<dvars, svars, avars, bvars, wvars>>
    /\ l_exit = "running"
    /\ l_pc = "connect"
    /\ IF ok
       THEN /\ conn' = "open"
            /\ l_pc' = "delete"
            /\ UNCHANGED <<l_script, worlds, table, tx_table, tx_deleted, tx_rows,
                           old_rows, commits, l_i, l_j, l_count, l_exit, l_sent>>
       ELSE OnDbError

\* the loader without its DELETE statement
ExecDelete_NoDelete(ok) ==
    /\ UNCHANGED <<dvars, svars, avars, bvars, wvars>>
    /\ l_exit = "running"
    /\ l_pc = "delete"
    /\ IF ok
       THEN /\ l_pc' = "delete_commit"
            /\ UNCHANGED <<l_script, worlds, table, tx_table, tx_deleted, tx_rows,
                           old_rows, commits, l_i, l_j, l_count, conn, l_exit, l_sent>>
       ELSE OnDbError

\* cur.execute("DELETE FROM worlds")
ExecDelete(ok) ==
    /\ UNCHANGED <<dvars, svars, avars, bvars, wvars>>
    /\ l_exit = "running"
    /\ l_pc = "delete"
    /\ IF ok
       THEN /\ tx_table' = EmptyBag
            /\ tx_deleted' = TRUE
            /\ l_pc' = "delete_commit"
            /\ UNCHANGED <<l_script, worlds, table, tx_rows, old_rows, commits,
                           l_i, l_j, l_count, conn, l_exit, l_sent>>
       ELSE OnDbError

\* conn.commit() after the DELETE, then the loop head of the batch loop
CommitDelete(ok) ==
    /\ UNCHANGED <<dvars, svars, avars, bvars, wvars>>
    /\ l_exit = "running"
    /\ l_pc = "delete_commit"
    /\ IF ok
       THEN /\ table' = tx_table
            /\ commits' = Append(commits, [deleted |-> tx_deleted, rows |-> tx_rows])
            /\ tx_deleted' = FALSE
            /\ tx_rows' = 0
            /\ l_i' = 0
            /\ l_j' = 0
            /\ l_pc' = LoopHead(0)
            /\ UNCHANGED <<l_script, worlds, tx_table, old_rows, l_count, conn, l_exit, l_sent>>
       ELSE OnDbError

\* seed.py 677-682: one cur.execute("INSERT ...") of the current batch
InsertRow(ok) ==
    /\ UNCHANGED <<dvars, svars, avars, bvars, wvars>>
    /\ l_exit = "running"
    /\ l_script = "seed"
    /\ l_pc = "insert"
    /\ IF ok
       THEN LET batch == Batch(worlds, l_i, batch_size(l_script)) IN
            /\ tx_table' = tx_table (+) SetToBag({batch[l_j + 1]})
            /\ l_sent' = Append(l_sent, batch[l_j + 1])
            /\ tx_rows' = tx_rows + 1
            /\ l_j' = l_j + 1
            /\ l_pc' = IF l_j' = Len(batch) THEN "commit" ELSE "insert"
            /\ UNCHANGED <<l_script, worlds, table, tx_deleted, old_rows, commits,
                           l_i, l_count, conn, l_exit>>
       ELSE OnDbError

\* the rows of a batch sent last first
StatementRows_Reversed(batch) == [k \in 1..Len(batch) |-> batch[Len(batch) + 1 - k]]
\* cur.executemany(sql, batch): one INSERT per element of batch, in the order
\* of the list, with the tuple (title, description) as its parameters
StatementRows(batch) == batch

\* seed_agnews_remote.py 227-230: cur.executemany("INSERT ...", batch)
ExecuteMany(ok) ==
    /\ UNCHANGED <<dvars, svars, avars, bvars, wvars>>
    /\ l_exit = "running"
    /\ l_script = "agnews"
    /\ l_pc = "insert"
    /\ IF ok
       THEN LET batch == Batch(worlds, l_i, batch_size(l_script)) IN
            /\ tx_table' = tx_table (+) BagOfSeq(StatementRows(batch))
            /\ l_sent' = l_sent \o StatementRows(batch)
            /\ tx_rows' = tx_rows + Len(batch)
            /\ l_pc' = "commit"
            /\ UNCHANGED <<l_script, worlds, table, tx_deleted, old_rows, commits,
                           l_i, l_j, l_count, conn, l_exit>>
       ELSE OnDbError

\* conn.commit() of a batch, then the next evaluation of the loop head
CommitBatch(ok) ==
    /\ UNCHANGED <<dvars, svars, avars, bvars, wvars>>
    /\ l_exit = "running"
    /\ l_pc = "commit"
    /\ IF ok
       THEN /\ table' = tx_table
            /\ commits' = Append(commits, [deleted |-> tx_deleted, rows |-> tx_rows])
            /\ tx_deleted' = FALSE
            /\ tx_rows' = 0
            /\ l_i' = l_i + batch_size(l_script)
            /\ l_j' = 0
            /\ l_pc' = LoopHead(l_i')
            /\ UNCHANGED <<l_script, worlds, tx_table, old_rows, l_count, conn, l_exit, l_sent>>
       ELSE OnDbError

\* seed.py 702-703: cur.execute("SELECT COUNT(*) FROM worlds"); fetchone
CountRows(ok) ==
    /\ UNCHANGED <<dvars, svars, avars, bvars, wvars>>
    /\ l_exit = "running"
    /\ l_pc = "count"
    /\ IF ok
       THEN /\ l_count' = BagCardinality(tx_table)
            /\ l_pc' = "close"
            /\ UNCHANGED <<l_script, worlds, table, tx_table, tx_deleted, tx_rows,
                           old_rows, commits, l_i, l_j, conn, l_exit, l_sent>>
       ELSE OnDbError

\* cur.close(); conn.close(); the function returns
CloseAndReturn ==
    /\ UNCHANGED <<dvars, svars, avars, bvars, wvars>>
    /\ l_exit = "running"
    /\ l_pc = "close"
    /\ conn' = "closed"
    /\ tx_table' = table
    /\ l_pc' = "done"
    /\ l_exit' = "returned"
    /\ UNCHANGED <<l_script, worlds, table, tx_deleted, tx_rows, old_rows, commits,
                   l_i, l_j, l_count, l_sent>>

\* the process is killed: the connection is lost and the server discards the
\* open transaction
Kill ==
    /\ UNCHANGED <<dvars, svars, avars, bvars, wvars>>
    /\ l_exit = "running"
    /\ conn' = IF conn = "open" THEN "dropped" ELSE conn
    /\ tx_table' = table
    /\ tx_deleted' = FALSE
    /\ tx_rows' = 0
    /\ l_exit' = "killed"
    /\ UNCHANGED <<l_script, worlds, table, old_rows, commits, l_i, l_j, l_count, l_pc, l_sent>>

LNext ==
    \/ \E ok \in BOOLEAN : Connect(ok)
    \/ \E ok \in BOOLEAN : ExecDelete(ok)
    \/ \E ok \in BOOLEAN : CommitDelete(ok)
    \/ \E ok \in BOOLEAN : InsertRow(ok)
    \/ \E ok \in BOOLEAN : ExecuteMany(ok)
    \/ \E ok \in BOOLEAN : CommitBatch(ok)
    \/ \E ok \in BOOLEAN : CountRows(ok)
    \/ CloseAndReturn
    \/ Kill

(***************************************************************************)
(* Harvest scheduler: seed.py main (855-1047).                             *)
(* An adapter is a black box here: run for a source, it returns its list   *)
(* of candidates or raises; s_outcome fixes which, for every source,       *)
(* before the run.                                                         *)
(***************************************************************************)
\* the order of the extend calls, seed.py 998-1004, which is also the order
\* of submission (908-934) and of the sequential calls (973-992)
Sources == <<"arxiv", "wikipedia", "google_books", "quotable", "facts",
             "zenquotes", "wiki_books">>
SourceSet == {Sources[k] : k \in DOMAIN Sources}

\* seed.py 1040: if len(unique_worlds) < 10: return
MinUnique == 10

\* what each adapter returns when it does not raise; some titles differ from
\* a title of another source by case only
SourceItems(src) ==
    CASE src = "arxiv"        -> << <<<<"P">>, <<"1">>>>, <<<<"P", "P">>, <<"1">>>> >>
      [] src = "wikipedia"    -> << <<<<"p">>, <<"2">>>>, <<<<"W">>, <<"2">>>>,
                                    <<<<"W", "W">>, <<"2">>>> >>
      [] src = "google_books" -> << <<<<"G">>, <<"3">>>>, <<<<"G", "G">>, <<"3">>>> >>
      [] src = "quotable"     -> << <<<<"Q">>, <<"4">>>>, <<<<"Q", "Q">>, <<"4">>>> >>
      [] src = "facts"        -> << <<<<"F">>, <<"5">>>>, <<<<"F", "F">>, <<"5">>>> >>
      [] src = "zenquotes"    -> << <<<<"q">>, <<"6">>>>, <<<<"Z">>, <<"6">>>>,
                                    <<<<"Z", "Z">>, <<"6">>>> >>
      [] src = "wiki_books"   -> << <<<<"w">>, <<"7">>>>, <<<<"K">>, <<"7">>>>,
                                    <<<<"K", "K">>, <<"7">>>> >>

NotRun == [raised |-> FALSE, items |-> <<>>]

NotCalled == [called |-> FALSE, worlds |-> <<>>]

\* the configured sources in submission order: the futures dict
RECURSIVE FuturesFrom(_, _)
FuturesFrom(config, k) ==
    IF k > Len(Sources) THEN <<>>
    ELSE (IF Sources[k] \in config THEN <<Sources[k]>> ELSE <<>>)
         \o FuturesFrom(config, k + 1)
Futures(config) == FuturesFrom(config, 1)

\* seed.py 972-995: the sequential calls inside one try block; the first
\* adapter that raises ends the block
RECURSIVE SeqFrom(_, _, _, _)
SeqFrom(config, outcome, k, st) ==
    IF k > Len(Sources) THEN st
    ELSE LET src == Sources[k] IN
         IF src \notin config THEN SeqFrom(config, outcome, k + 1, st)
         ELSE IF outcome[src].raised
              THEN [st EXCEPT !.task[src] = "raised"]
              ELSE SeqFrom(config, outcome, k + 1,
                           [result |-> [st.result EXCEPT ![src] = outcome[src].items],
                            task |-> [st.task EXCEPT ![src] = "done"]])

SeqHarvest(config, outcome) ==
    SeqFrom(config, outcome, 1,
            [result |-> [src \in SourceSet |-> <<>>],
             task |-> [src \in SourceSet |-> "idle"]])

\* seed.py 998-1004: all_data.extend(...) in the fixed order
RECURSIVE ExtendFrom(_, _)
ExtendFrom(result, k) ==
    IF k > Len(Sources) THEN <<>>
    ELSE result[Sources[k]] \o ExtendFrom(result, k + 1)
Combine(result) == ExtendFrom(result, 1)

\* the hand-off without the check of MinUnique
HandOff_NoMinimum(all_data) ==
    [called |-> TRUE, worlds |-> MergeLoop(all_data).unique_worlds]
\* seed.py 1026-1047: merge loop, the check of MinUnique, the call of the loader
HandOff(all_data) ==
    LET unique_worlds == MergeLoop(all_data).unique_worlds
    IN  IF Len(unique_worlds) < MinUnique THEN NotCalled
        ELSE [called |-> TRUE, worlds |-> unique_worlds]

SInit ==
    /\ s_parallel \in BOOLEAN
    /\ s_config \in SUBSET SourceSet
    /\ \E raising \in SUBSET s_config :
           s_outcome = [src \in SourceSet |->
                           IF src \notin s_config THEN NotRun
                           ELSE IF src \in raising
                                THEN [raised |-> TRUE, items |-> <<>>]
                                ELSE [raised |-> FALSE, items |-> SourceItems(src)]]
    /\ s_task = [src \in SourceSet |-> "idle"]
    /\ s_result = [src \in SourceSet |-> <<>>]
    /\ s_collect = 1
    /\ s_all_data = <<>>
    /\ s_handed = NotCalled
    /\ s_pc = "start"

SIdle ==
    /\ s_parallel = FALSE
    /\ s_config = {}
    /\ s_outcome = [src \in SourceSet |-> NotRun]
    /\ s_task = [src \in SourceSet |-> "idle"]
    /\ s_result = [src \in SourceSet |-> <<>>]
    /\ s_collect = 1
    /\ s_all_data = <<>>
    /\ s_handed = NotCalled
    /\ s_pc = "idle"

\* seed.py 904-936: the pool of 7 workers takes every submitted task at once
SubmitAll ==
    /\ UNCHANGED <<dvars, lvars, avars, bvars, wvars>>
    /\ s_pc = "start"
    /\ s_parallel
    /\ s_task' = [src \in SourceSet |-> IF src \in s_config THEN "running" ELSE "idle"]
    /\ s_collect' = 1
    /\ s_pc' = "collect"
    /\ UNCHANGED <<s_parallel, s_config, s_outcome, s_result, s_all_data, s_handed>>

\* a worker thread ends the adapter of src: it returns or raises
TaskFinish(src) ==
    /\ UNCHANGED <<dvars, lvars, avars, bvars, wvars>>
    /\ s_task[src] = "running"
    /\ s_parallel
    /\ s_task' = [s_task EXCEPT ![src] = IF s_outcome[src].raised THEN "raised" ELSE "done"]
    /\ UNCHANGED <<s_parallel, s_config, s_outcome, s_result, s_collect, s_all_data,
                   s_handed, s_pc>>

\* seed.py 940-968: one iteration of  for source, future in futures.items():
\* future.result() blocks until the task of that source has ended
Collect ==
    /\ UNCHANGED <<dvars, lvars, avars, bvars, wvars>>
    /\ s_pc = "collect"
    /\ s_collect <= Len(Futures(s_config))
    /\ LET src == Futures(s_config)[s_collect] IN
       /\ s_task[src] \in {"done", "raised"}
       /\ s_result' = IF s_task[src] = "done"
                      THEN [s_result EXCEPT ![src] = s_outcome[src].items]
                      ELSE s_result
    /\ s_collect' = s_collect + 1
    /\ UNCHANGED <<s_parallel, s_config, s_outcome, s_task, s_all_data, s_handed, s_pc>>

\* main leaves the with block without waiting for the tasks
EndCollect_Early ==
    /\ UNCHANGED <<dvars, lvars, avars, bvars, wvars>>
    /\ s_pc = "collect"
    /\ s_pc' = "merge"
    /\ UNCHANGED <<s_parallel, s_config, s_outcome, s_task, s_result, s_collect,
                   s_all_data, s_handed>>

\* the with block of the executor ends after the last future
EndCollect ==
    /\ UNCHANGED <<dvars, lvars, avars, bvars, wvars>>
    /\ s_pc = "collect"
    /\ s_collect > Len(Futures(s_config))
    /\ \A src \in SourceSet : s_task[src] # "running"
    /\ s_pc' = "merge"
    /\ UNCHANGED <<s_parallel, s_config, s_outcome, s_task, s_result, s_collect,
                   s_all_data, s_handed>>

\* seed.py 970-995: sequential mode
Sequential ==
    /\ UNCHANGED <<dvars, lvars, avars, bvars, wvars>>
    /\ s_pc = "start"
    /\ ~s_parallel
    /\ s_result' = SeqHarvest(s_config, s_outcome).result
    /\ s_task' = SeqHarvest(s_config, s_outcome).task
    /\ s_pc' = "merge"
    /\ UNCHANGED <<s_parallel, s_config, s_outcome, s_collect, s_all_data, s_handed>>

\* seed.py 997-1047: combine, deduplicate, return early or call the loader
MergeAndHandOff ==
    /\ UNCHANGED <<dvars, lvars, avars, bvars, wvars>>
    /\ s_pc = "merge"
    /\ s_all_data' = Combine(s_result)
    /\ s_handed' = HandOff(s_all_data')
    /\ s_pc' = IF s_handed'.called THEN "loading" ELSE "returned"
    /\ UNCHANGED <<s_parallel, s_config, s_outcome, s_task, s_result, s_collect>>

SNext ==
    \/ SubmitAll
    \/ \E src \in SourceSet : TaskFinish(src)
    \/ Collect
    \/ EndCollect
    \/ Sequential
    \/ MergeAndHandOff

(***************************************************************************)
(* Source adapters of seed.py.                                             *)
(*   polling: scrape_quotable_quotes (436-499), scrape_random_facts        *)
(*            (501-567), scrape_zenquotes (569-641)                        *)
(*   pooled:  scrape_arxiv_papers (133-227), scrape_google_books_free      *)
(*            (347-434), scrape_wikipedia_bulk (229-345)                   *)
(* The provider is opaque: every request is answered by any response.      *)
(***************************************************************************)
\* target_count ranges over 1..MaxTarget; the lists of categories (16
\* entries) and of subjects (30 entries) are cut to their first MaxGroups
\* entries; a fetch task returns at most MaxBatchLen candidates
MaxTarget == 3
MaxGroups == 2
MaxBatchLen == 2

PollKinds == {"quotable", "facts", "zenquotes"}
GroupKinds == {"arxiv", "google_books"}
AdapterKinds == PollKinds \cup GroupKinds \cup {"wikipedia"}

NotReturned == [returned |-> FALSE, items |-> <<>>]

\* ---- polling adapters
\* texts a provider may answer with, and len() of each; "spaces" is a text of
\* 21 blanks; t50 .. t101 are texts of 50 .. 101 characters and "refer" one of
\* 60 characters that holds 'may refer to' (answers to the pooled adapters)
Contents == {"", "short", "c1", "c2", "spaces"}
TextLen(content) ==
    CASE content = "" -> 0
      [] content = "short" -> 20
      [] content = "t50" -> 50
      [] content = "t51" -> 51
      [] content = "refer" -> 60
      [] content = "t100" -> 100
      [] content = "t101" -> 101
      [] OTHER -> 21
Authors == {"a1", "a2"}

\* seed.py 471, 534, 608: len(content) > 20
MinQuoteLen == 20

\* the answer to one request: requests.get or response.json() raises (also
\* on a timeout), a status other than 200, or status 200 with an item
PollResponses ==
    {[kind |-> k, author |-> "a1", content |-> ""] : k \in {"raise", "non200"}}
    \cup {[kind |-> "ok", author |-> a, content |-> c] : a \in Authors, c \in Contents}

\* seed.py 538-541: the first 8 words of the fact, "..." appended when there
\* are more; c1 and c2 stand for facts that share their first 8 words; a
\* fact of blanks has no words
FactTitle(fact) ==
    IF fact \in {"c1", "c2"} THEN <<"w1 .. w8", "...">>
    ELSE IF fact = "spaces" THEN <<>>
    ELSE <<fact>>

\* the (title, description) tuple an adapter builds of an accepted item
PollCandidate(kind, author, content) ==
    IF kind = "facts" THEN <<FactTitle(content), <<content>>>>
    ELSE <<<<"Quote by ", author>>, <<"\"", content, "\" - ", author>>>>

\* max_attempts = target_count * 3
max_attempts_Triple(target) == target * 3
\* seed.py 452, 517, 585: max_attempts = target_count * 2
max_attempts(target) == target * 2

\* the test without  content not in seen_quotes
PollAccepts_NoSeen(kind, seen, author, content) ==
    /\ content # ""
    /\ TextLen(content) > MinQuoteLen
\* if content and content not in seen_quotes and len(content) > 20
PollAccepts(kind, seen, author, content) ==
    /\ content # ""
    /\ content \notin seen
    /\ TextLen(content) > MinQuoteLen

\* what seen_quotes / seen_facts records of an accepted item
PollSeenKey(kind, author, content) == content

\* the pacing waits, in tenths of a second: time.sleep(0.2) (seed.py 488,
\* 556); scrape_zenquotes: time.sleep(6) after every 5th counted request,
\* else time.sleep(0.5) (619-624)
PaceWait == 2
ZenWait == 5
ZenPause == 60
ZenBurst == 5

\* the time a request takes when the provider answers at once, in tenths of
\* a second (requests.get(..., timeout=10) bounds it by 10 s)
RequestTime == 1

\* the sleep at the end of a pass of the loop body; a request that raised
\* leaves the try block before the sleep (except: ... continue)
PacingWait(kind, resp, counted) ==
    IF resp.kind = "raise" THEN 0
    ELSE IF kind = "zenquotes"
         THEN (IF counted % ZenBurst = 0 THEN ZenPause ELSE ZenWait)
         ELSE PaceWait

\* the loop condition  len(quotes) < target_count and attempts < max_attempts
PollLoopCond == Len(a_items) < target_count /\ attempts < max_attempts(target_count)

\* one iteration of the while loop: attempts += 1, the request, the handling
\* of its answer, the pacing sleep
PollIteration(resp) ==
    /\ UNCHANGED <<dvars, lvars, svars, bvars, wvars>>
    /\ a_kind \in PollKinds
    /\ a_pc = "loop"
    /\ PollLoopCond
    /\ attempts' = attempts + 1
    /\ a_requests' = a_requests + 1
    /\ IF resp.kind = "ok" /\ PollAccepts(a_kind, a_seen, resp.author, resp.content)
       THEN /\ a_seen' = a_seen \cup {PollSeenKey(a_kind, resp.author, resp.content)}
            /\ a_items' = Append(a_items, PollCandidate(a_kind, resp.author, resp.content))
       ELSE UNCHANGED <<a_seen, a_items>>
    /\ a_offered' = IF resp.kind = "ok" /\ resp.content # ""
                       /\ TextLen(resp.content) > MinQuoteLen
                    THEN a_offered \cup {resp.content}
                    ELSE a_offered
    /\ request_count' = IF a_kind = "zenquotes" /\ resp.kind # "raise"
                        THEN request_count + 1 ELSE request_count
    /\ a_waits' = Append(a_waits, PacingWait(a_kind, resp, request_count'))
    /\ UNCHANGED <<a_kind, target_count, a_group, a_pending, a_fetched, a_access,
                   a_pc, a_returned>>

\* the loop condition is false: return quotes / facts
PollReturn ==
    /\ UNCHANGED <<dvars, lvars, svars, bvars, wvars>>
    /\ a_kind \in PollKinds
    /\ a_pc = "loop"
    /\ ~PollLoopCond
    /\ a_returned' = [returned |-> TRUE, items |-> a_items]
    /\ a_pc' = "returned"
    /\ UNCHANGED <<a_kind, target_count, a_items, a_seen, attempts, request_count,
                   a_requests, a_offered, a_waits, a_group, a_pending, a_fetched,
                   a_access>>

\* ---- pooled adapters
\* titles and texts of the entries a provider may answer with: titles that
\* differ by case only, a title with a line break, a blank title, an empty one
PoolTitles == {<<"A">>, <<"a">>, <<"B">>, <<"B", "\n">>, <<" ">>, <<>>}
PoolTexts(kind) ==
    IF kind = "arxiv" THEN {"", "t100", "t101"}
    ELSE IF kind = "wikipedia" THEN {"", "t50", "t51", "refer"}
    ELSE {"", "t50", "t51"}
PoolEntries(kind) == {[title |-> t, text |-> x] : t \in PoolTitles, x \in PoolTexts(kind)}

\* seed.py 176: len(summary) > 100; 300: len(extract) > 50; 385:
\* len(description) > 50
MinSummaryLen == 100
MinExtractLen == 50
MinDescriptionLen == 50

\* str.replace('\n', ' ')
ReplaceNewline(s) == [k \in DOMAIN s |-> IF s[k] = "\n" THEN " " ELSE s[k]]

\* seed.py 168-177: the loop over the entries of one answer; .text of an
\* empty element is None, and None.replace raises
RECURSIVE ArxivEntriesFrom(_, _)
ArxivEntriesFrom(entries, k) ==
    IF k > Len(entries) THEN [raised |-> FALSE, batch |-> <<>>]
    ELSE LET e == entries[k]
             rest == ArxivEntriesFrom(entries, k + 1)
         IN  IF e.title = <<>> \/ e.text = "" \/ rest.raised
             THEN [raised |-> TRUE, batch |-> <<>>]
             ELSE IF TextLen(e.text) > MinSummaryLen
                  THEN [raised |-> FALSE,
                        batch |-> <<<<Strip(ReplaceNewline(e.title)), <<e.text>>>>>>
                                  \o rest.batch]
                  ELSE rest

\* seed.py 153-183: what a fetch task returns, and the keys of the valid
\* candidates it obtained from answers that succeeded
fetch_arxiv_batch(resp) ==
    LET r == ArxivEntriesFrom(resp.entries, 1)
        batch == IF resp.kind # "ok" \/ r.raised THEN <<>> ELSE r.batch
    IN  [batch |-> batch, obtained |-> {Lower(batch[k][1]) : k \in DOMAIN batch}]

\* seed.py 380-386: if title and description and len(description) > 50
RECURSIVE BooksItemsFrom(_, _)
BooksItemsFrom(entries, k) ==
    IF k > Len(entries) THEN <<>>
    ELSE LET e == entries[k] IN
         (IF Truthy(e.title) /\ e.text # "" /\ TextLen(e.text) > MinDescriptionLen
          THEN <<<<e.title, <<e.text>>>>>> ELSE <<>>)
         \o BooksItemsFrom(entries, k + 1)

\* seed.py 367-391
fetch_google_books_page(resp) ==
    LET batch == IF resp.kind # "ok" THEN <<>> ELSE BooksItemsFrom(resp.entries, 1)
    IN  [batch |-> batch, obtained |-> {Lower(batch[k][1]) : k \in DOMAIN batch}]

\* seed.py 299-302: the filter of one page of a content answer
WikiAccepts(e) ==
    /\ Truthy(e.title)
    /\ e.text # ""
    /\ TextLen(e.text) > MinExtractLen
    /\ e.text # "refer"

\* seed.py 274-302: the content requests of one task, one after the other: a
\* status other than 200 skips the request, a request that raises ends the
\* task in the handler of 306-307, which returns []
RECURSIVE WikiContentsFrom(_, _, _)
WikiContentsFrom(contents, k, acc) ==
    IF k > Len(contents) THEN [raised |-> FALSE, batch |-> acc, obtained |-> acc]
    ELSE LET c == contents[k] IN
         IF c.kind = "raise" THEN [raised |-> TRUE, batch |-> <<>>, obtained |-> acc]
         ELSE IF c.kind = "ok" /\ WikiAccepts(c.entry)
              THEN WikiContentsFrom(contents, k + 1,
                                    Append(acc, <<c.entry.title, <<c.entry.text>>>>))
              ELSE WikiContentsFrom(contents, k + 1, acc)

\* seed.py 241-307: the request of the random page ids, then the content
\* requests
fetch_wikipedia_batch_optimized(resp) ==
    IF resp.kind # "ok" THEN [batch |-> <<>>, obtained |-> {}]
    ELSE LET r == WikiContentsFrom(resp.contents, 1, <<>>)
         IN  [batch |-> r.batch,
              obtained |-> {Lower(r.obtained[k][1]) : k \in DOMAIN r.obtained}]

\* the answers to the request of a fetch task of arxiv or google books
PoolResponses(kind) ==
    {[kind |-> k, entries |-> <<>>] : k \in {"raise", "non200"}}
    \cup {[kind |-> "ok", entries |-> es] : es \in SeqsUpTo(PoolEntries(kind), MaxBatchLen)}

\* the answers to the content requests of a wikipedia task, each of one page
WikiContentResponses ==
    {[kind |-> k, entry |-> [title |-> <<>>, text |-> ""]] : k \in {"raise", "non200"}}
    \cup {[kind |-> "ok", entry |-> e] : e \in PoolEntries("wikipedia")}

\* the answers to the requests of a wikipedia task: that of the page ids
\* raises, has a status other than 200, or is followed by content requests
WikiResponses ==
    {[kind |-> k, contents |-> <<>>] : k \in {"raise", "non200"}}
    \cup {[kind |-> "ok", contents |-> cs] : cs \in SeqsUpTo(WikiContentResponses, MaxBatchLen)}

\* what the fetch tasks of each adapter may return
ArxivResults == {fetch_arxiv_batch(resp) : resp \in PoolResponses("arxiv")}
BooksResults == {fetch_google_books_page(resp) : resp \in PoolResponses("google_books")}
WikiResults == {fetch_wikipedia_batch_optimized(resp) : resp \in WikiResponses}
TaskResults(kind) ==
    IF kind = "arxiv" THEN ArxivResults
    ELSE IF kind = "google_books" THEN BooksResults
    ELSE WikiResults

\* seed.py 198: range(0, 500, 100); seed.py 405: range(0, 200, 40)
ArxivBatches == 5
BooksPages == 5
TasksPerGroup(kind) == IF kind = "arxiv" THEN ArxivBatches ELSE BooksPages

\* seed.py 311: batches_needed = (target_count // 180) + 3
batches_needed(target) == (target \div 180) + 3

\* seed.py 209-216, 326-333, 416-423: the loop over one collected batch,
\* under the lock; the break stands inside the  not in seen_titles  branch
RECURSIVE AcceptFrom(_, _, _, _)
AcceptFrom(st, batch, k, target) ==
    IF k > Len(batch) THEN st
    ELSE LET key_k == Lower(batch[k][1]) IN
         IF key_k \notin st.seen
         THEN LET st2 == [seen |-> st.seen \cup {key_k},
                          items |-> Append(st.items, batch[k])]
              IN  IF Len(st2.items) >= target THEN st2
                  ELSE AcceptFrom(st2, batch, k + 1, target)
         ELSE AcceptFrom(st, batch, k + 1, target)

AcceptBatch(items, seen, batch, target) ==
    AcceptFrom([seen |-> seen, items |-> items], batch, 1, target)

\* an access to papers / articles / books or seen_titles: the thread that
\* makes it, and whether it holds the lock
Access(thread, lock) == [thread |-> thread, lock |-> lock]

\* seed.py 186-202, 393-409: the head of the loop over categories / subjects:
\* stop when the target is reached or the list is exhausted, else submit the
\* tasks of the group (len(papers) does not change while they are submitted);
\* len(papers) is read under the lock at 188 and without it at 193, 199, 225
GroupHead ==
    /\ UNCHANGED <<dvars, lvars, svars, bvars, wvars>>
    /\ a_kind \in GroupKinds
    /\ a_pc = "group_head"
    /\ IF Len(a_items) >= target_count \/ a_group > MaxGroups
       THEN /\ a_returned' = [returned |-> TRUE, items |-> a_items]
            /\ a_pc' = "returned"
            /\ UNCHANGED a_pending
       ELSE /\ a_pending' = TasksPerGroup(a_kind)
            /\ a_pc' = "collect"
            /\ UNCHANGED a_returned
    /\ a_access' = a_access \cup {Access("adapter", TRUE), Access("adapter", FALSE)}
    /\ UNCHANGED <<a_kind, target_count, a_items, a_seen, attempts, request_count,
                   a_requests, a_offered, a_waits, a_group, a_fetched>>

\* the worker of a fetch task that appends to the shared lists itself
FetchTask_Shared ==
    /\ UNCHANGED <<dvars, lvars, svars, bvars, wvars>>
    /\ a_kind \notin PollKinds
    /\ a_pc \in {"collect", "join"}
    /\ a_pending > 0
    /\ a_pending' = a_pending - 1
    /\ a_fetched' = a_fetched + 1
    /\ a_requests' = a_requests + 1
    /\ a_access' = a_access \cup {Access("worker", FALSE)}
    /\ UNCHANGED <<a_kind, target_count, a_items, a_seen, attempts, request_count,
                   a_offered, a_waits, a_group, a_pc, a_returned>>

\* seed.py 153-183, 241-307, 367-391: a worker thread of the pool runs a
\* fetch task to its end (the tasks of a pool differ by the page they ask for
\* only, so their number is kept); the task works on its own list (batch_papers,
\* batch_articles, page_books) and touches neither the shared list nor
\* seen_titles
FetchTask ==
    /\ UNCHANGED <<dvars, lvars, svars, bvars, wvars>>
    /\ a_kind \notin PollKinds
    /\ a_pc \in {"collect", "join"}
    /\ a_pending > 0
    /\ a_pending' = a_pending - 1
    /\ a_fetched' = a_fetched + 1
    /\ a_requests' = a_requests + 1
    /\ UNCHANGED <<a_kind, target_count, a_items, a_seen, attempts, request_count,
                   a_offered, a_waits, a_group, a_access, a_pc, a_returned>>

\* seed.py 205-216, 412-423: as_completed yields the next finished task, in
\* any order, and its batch is accepted under the lock; after the last one the
\* group ends
GroupCollect(res) ==
    /\ UNCHANGED <<dvars, lvars, svars, bvars, wvars>>
    /\ a_kind \in GroupKinds
    /\ a_pc = "collect"
    /\ a_fetched > 0
    /\ res \in TaskResults(a_kind)
    /\ LET st == AcceptBatch(a_items, a_seen, res.batch, target_count) IN
       /\ a_items' = st.items
       /\ a_seen' = st.seen
    /\ a_offered' = a_offered \cup res.obtained
    /\ a_fetched' = a_fetched - 1
    /\ a_access' = a_access \cup {Access("adapter", TRUE)}
    /\ IF a_pending = 0 /\ a_fetched' = 0
       THEN a_pc' = "group_head" /\ a_group' = a_group + 1
       ELSE UNCHANGED <<a_pc, a_group>>
    /\ UNCHANGED <<a_kind, target_count, attempts, request_count, a_requests,
                   a_waits, a_pending, a_returned>>

\* seed.py 315-317: submit batches_needed tasks
WikiSubmit ==
    /\ UNCHANGED <<dvars, lvars, svars, bvars, wvars>>
    /\ a_kind = "wikipedia"
    /\ a_pc = "submit"
    /\ a_pending' = batches_needed(target_count)
    /\ a_pc' = "collect"
    /\ UNCHANGED <<a_kind, target_count, a_items, a_seen, attempts, request_count,
                   a_requests, a_offered, a_waits, a_group, a_fetched, a_access,
                   a_returned>>

\* the slice of the return statement, seed.py 345: articles[:target_count]
Truncate(items, target) == SubSeq(items, 1, Min(target, Len(items)))

\* seed.py 321-340: the next finished super-batch is accepted under the lock;
\* the loop over the futures ends at the target or after the last future
WikiCollect(res) ==
    /\ UNCHANGED <<dvars, lvars, svars, bvars, wvars>>
    /\ a_kind = "wikipedia"
    /\ a_pc = "collect"
    /\ a_fetched > 0
    /\ res \in TaskResults(a_kind)
    /\ LET st == AcceptBatch(a_items, a_seen, res.batch, target_count) IN
       /\ a_items' = st.items
       /\ a_seen' = st.seen
    /\ a_offered' = a_offered \cup res.obtained
    /\ a_fetched' = a_fetched - 1
    /\ a_access' = a_access \cup {Access("adapter", TRUE)}
    /\ a_pc' = IF Len(a_items') >= target_count \/ (a_pending = 0 /\ a_fetched' = 0)
               THEN "join" ELSE "collect"
    /\ UNCHANGED <<a_kind, target_count, attempts, request_count, a_requests,
                   a_waits, a_group, a_pending, a_returned>>

\* seed.py 315, 342-345: the with block ends when every submitted task has
\* run to its end (shutdown waits for the workers); then the function returns
\* articles[:target_count]
WikiJoin ==
    /\ UNCHANGED <<dvars, lvars, svars, bvars, wvars>>
    /\ a_kind = "wikipedia"
    /\ a_pc = "join"
    /\ a_pending = 0
    /\ a_returned' = [returned |-> TRUE, items |-> Truncate(a_items, target_count)]
    /\ a_access' = a_access \cup {Access("adapter", FALSE)}
    /\ a_pc' = "returned"
    /\ UNCHANGED <<a_kind, target_count, a_items, a_seen, attempts, request_count,
                   a_requests, a_offered, a_waits, a_group, a_pending, a_fetched>>

AInit ==
    /\ a_kind \in AdapterKinds
    /\ target_count \in 1..MaxTarget
    /\ a_items = <<>>
    /\ a_seen = {}
    /\ attempts = 0
    /\ request_count = 0
    /\ a_requests = 0
    /\ a_offered = {}
    /\ a_waits = <<>>
    /\ a_group = 1
    /\ a_pending = 0
    /\ a_fetched = 0
    /\ a_access = {}
    /\ a_pc = IF a_kind \in PollKinds THEN "loop"
              ELSE IF a_kind \in GroupKinds THEN "group_head" ELSE "submit"
    /\ a_returned = NotReturned

AIdle ==
    /\ a_kind = "quotable"
    /\ target_count = 1
    /\ a_items = <<>>
    /\ a_seen = {}
    /\ attempts = 0
    /\ request_count = 0
    /\ a_requests = 0
    /\ a_offered = {}
    /\ a_waits = <<>>
    /\ a_group = 1
    /\ a_pending = 0
    /\ a_fetched = 0
    /\ a_access = {}
    /\ a_pc = "idle"
    /\ a_returned = NotReturned

PollInit == AInit /\ a_kind \in PollKinds
PoolInit == AInit /\ a_kind \notin PollKinds

PollNext ==
    \/ \E resp \in PollResponses : PollIteration(resp)
    \/ PollReturn

PoolNext ==
    \/ GroupHead
    \/ FetchTask
    \/ \E res \in ArxivResults \cup BooksResults : GroupCollect(res)
    \/ WikiSubmit
    \/ \E res \in WikiResults : WikiCollect(res)
    \/ WikiJoin

(***************************************************************************)
(* The bulk import pipeline: main and download_agnews of                   *)
(* seed_agnews_remote.py.                                                  *)
(***************************************************************************)
\* the snapshot file holds at most MaxLines lines
MaxLines == 3

\* lines of the snapshot: three titles with different keys, a second spelling
\* of the first, a line that is not JSON and one that is not UTF-8
BulkLines ==
    {[kind |-> "pair", title |-> <<"A">>, desc |-> <<"x">>],
     [kind |-> "pair", title |-> <<"a">>, desc |-> <<"x", " ", "\n", "y">>],
     [kind |-> "pair", title |-> <<"B">>, desc |-> <<"x">>],
     [kind |-> "pair", title |-> <<"P">>, desc |-> <<"x">>],
     [kind |-> "badjson", title |-> <<>>, desc |-> <<>>],
     [kind |-> "undecodable", title |-> <<>>, desc |-> <<>>]}

\* the script is run at most MaxRuns times in a row
MaxRuns == 2

\* values of --limit: argparse takes any int
BulkLimits == (0 - 1)..(MaxLines + 1)

BulkArgs ==
    [force_download : BOOLEAN, download_only : BOOLEAN, shuffle : BOOLEAN,
     limit : BulkLimits]

\* how the download of download_agnews goes once it is attempted: it
\* completes, requests.get raises, raise_for_status raises, iter_content
\* raises in the chunk loop, or f.write raises OSError in the chunk loop
DownloadOutcomes ==
    {"ok", "connect_error", "http_error", "stream_error", "write_error"}

\* the skip test without the force flag
SkipDownload_IgnoreForce(file, force) == file # "missing"
\* download_agnews: os.path.exists(output_path) and not force
SkipDownload(file, force) == file # "missing" /\ ~force

\* the handler of requests.exceptions.RequestException: the file at
\* output_path is removed if there is one, then sys.exit(1)
OnRequestException(requests) ==
    [file |-> "missing", requests |-> requests, exit |-> "exit1"]

\* download_agnews: the file, the requests issued and the way it ends
download_agnews(file, force, outcome) ==
    IF SkipDownload(file, force)
    THEN [file |-> file, requests |-> 0, exit |-> "running"]
    ELSE CASE outcome = "ok" ->
                  [file |-> "new", requests |-> 1, exit |-> "running"]
           [] outcome \in {"connect_error", "http_error", "stream_error"} ->
                  OnRequestException(1)
           [] outcome = "write_error" ->
                  [file |-> "partial", requests |-> 1, exit |-> "traceback"]

\* random.shuffle(unique_pairs): any order of the same records
Shuffles(pairs) ==
    {[k \in 1..Len(pairs) |-> pairs[p[k]]] : p \in Permutations(1..Len(pairs))}

\* the lists unique_pairs may hold after step 4 although no shuffle was asked
ShuffleStep_Always(pairs, shuffle) == Shuffles(pairs)
\* step 4 of main: if args.shuffle: random.shuffle(unique_pairs)
ShuffleStep(pairs, shuffle) == IF shuffle THEN Shuffles(pairs) ELSE {pairs}

\* the slice that keeps one record more
Slice_OneMore(pairs, limit) == SubSeq(pairs, 1, Min(limit + 1, Len(pairs)))
\* the slice unique_pairs[:limit]
Slice(pairs, limit) ==
    IF limit >= 0 THEN SubSeq(pairs, 1, Min(limit, Len(pairs)))
    ELSE SubSeq(pairs, 1, Len(pairs) + limit)

BInit ==
    /\ b_run = 1
    /\ b_args \in BulkArgs
    /\ b_lines \in SeqsUpTo(BulkLines, MaxLines)
    /\ b_file0 \in {"missing", "old"}
    /\ b_file = b_file0
    /\ b_requests = 0
    /\ raw_pairs = <<>>
    /\ b_deduped = <<>>
    /\ unique_pairs = <<>>
    /\ final_pairs = <<>>
    /\ b_warned = FALSE
    /\ b_loaded = NotCalled
    /\ b_steps = <<>>
    /\ b_pc = "download"
    /\ b_exit = "running"

BIdle ==
    /\ b_run = 0
    /\ b_args = [force_download |-> FALSE, download_only |-> FALSE,
                 shuffle |-> FALSE, limit |-> 0]
    /\ b_lines = <<>>
    /\ b_file0 = "missing"
    /\ b_file = "missing"
    /\ b_requests = 0
    /\ raw_pairs = <<>>
    /\ b_deduped = <<>>
    /\ unique_pairs = <<>>
    /\ final_pairs = <<>>
    /\ b_warned = FALSE
    /\ b_loaded = NotCalled
    /\ b_steps = <<>>
    /\ b_pc = "idle"
    /\ b_exit = "idle"

\* step 1 without the return of --download-only
BDownload_NoReturn(outcome) ==
    /\ UNCHANGED <<dvars, lvars, svars, avars, wvars>>
    /\ b_exit = "running"
    /\ b_pc = "download"
    /\ LET d == download_agnews(b_file, b_args.force_download, outcome) IN
       /\ b_file' = d.file
       /\ b_requests' = b_requests + d.requests
       /\ b_steps' = Append(b_steps, "download")
       /\ IF d.exit # "running"
          THEN b_exit' = d.exit /\ b_pc' = b_pc
          ELSE b_exit' = b_exit /\ b_pc' = "parse"
    /\ UNCHANGED <<b_run, b_args, b_lines, b_file0, raw_pairs, b_deduped, unique_pairs,
                   final_pairs, b_warned, b_loaded>>

\* main, step 1: download_agnews, then the return of --download-only
BDownload(outcome) ==
    /\ UNCHANGED <<dvars, lvars, svars, avars, wvars>>
    /\ b_exit = "running"
    /\ b_pc = "download"
    /\ LET d == download_agnews(b_file, b_args.force_download, outcome) IN
       /\ b_file' = d.file
       /\ b_requests' = b_requests + d.requests
       /\ b_steps' = Append(b_steps, "download")
       /\ IF d.exit # "running"
          THEN b_exit' = d.exit /\ b_pc' = b_pc
          ELSE IF b_args.download_only
          THEN b_exit' = "exit0" /\ b_pc' = "done"
          ELSE b_exit' = b_exit /\ b_pc' = "parse"
    /\ UNCHANGED <<b_run, b_args, b_lines, b_file0, raw_pairs, b_deduped, unique_pairs,
                   final_pairs, b_warned, b_loaded>>

\* main, step 2: load_agnews_pairs over the whole file; gzip raises on a
\* truncated file, the text reader on a line that is not UTF-8, and the
\* function exits; main exits when no pair was loaded
BParse ==
    /\ UNCHANGED <<dvars, lvars, svars, avars, wvars>>
    /\ b_exit = "running"
    /\ b_pc = "parse"
    /\ b_steps' = Append(b_steps, "parse")
    /\ IF b_file = "partial" \/ ReadAborts(b_lines)
       THEN /\ b_exit' = "exit1"
            /\ UNCHANGED <<raw_pairs, b_pc>>
       ELSE /\ raw_pairs' = load_agnews_pairs(b_lines)
            /\ IF raw_pairs' = <<>>
               THEN b_exit' = "exit1" /\ b_pc' = b_pc
               ELSE b_exit' = b_exit /\ b_pc' = "dedup"
    /\ UNCHANGED <<b_run, b_args, b_lines, b_file0, b_file, b_requests, b_deduped,
                   unique_pairs, final_pairs, b_warned, b_loaded>>

\* main, step 3: deduplicate_by_title
BDedup ==
    /\ UNCHANGED <<dvars, lvars, svars, avars, wvars>>
    /\ b_exit = "running"
    /\ b_pc = "dedup"
    /\ unique_pairs' = deduplicate_by_title(raw_pairs)
    /\ b_deduped' = unique_pairs'
    /\ b_steps' = Append(b_steps, "dedup")
    /\ b_pc' = "shuffle"
    /\ UNCHANGED <<b_run, b_args, b_lines, b_file0, b_file, b_requests, raw_pairs,
                   final_pairs, b_warned, b_loaded, b_exit>>

\* main, step 4: the optional shuffle
BShuffle ==
    /\ UNCHANGED <<dvars, lvars, svars, avars, wvars>>
    /\ b_exit = "running"
    /\ b_pc = "shuffle"
    /\ unique_pairs' \in ShuffleStep(unique_pairs, b_args.shuffle)
    /\ b_steps' = IF b_args.shuffle THEN Append(b_steps, "shuffle") ELSE b_steps
    /\ b_pc' = "limit"
    /\ UNCHANGED <<b_run, b_args, b_lines, b_file0, b_file, b_requests, raw_pairs,
                   b_deduped, final_pairs, b_warned, b_loaded, b_exit>>

\* main, step 5: the limit and its warning
BLimit ==
    /\ UNCHANGED <<dvars, lvars, svars, avars, wvars>>
    /\ b_exit = "running"
    /\ b_pc = "limit"
    /\ final_pairs' = Slice(unique_pairs, b_args.limit)
    /\ b_warned' = (Len(final_pairs') < b_args.limit)
    /\ b_steps' = Append(b_steps, "limit")
    /\ b_pc' = "load"
    /\ UNCHANGED <<b_run, b_args, b_lines, b_file0, b_file, b_requests, raw_pairs,
                   b_deduped, unique_pairs, b_loaded, b_exit>>

\* the loader called straight after the dedup step
BLoad_Early(ok) ==
    /\ UNCHANGED <<dvars, lvars, svars, avars, wvars>>
    /\ b_exit = "running"
    /\ b_pc \in {"shuffle", "load"}
    /\ b_loaded' = [called |-> TRUE, worlds |-> final_pairs]
    /\ b_steps' = Append(b_steps, "load")
    /\ b_exit' = IF ok THEN "exit0" ELSE "exit1"
    /\ b_pc' = IF ok THEN "done" ELSE b_pc
    /\ UNCHANGED <<b_run, b_args, b_lines, b_file0, b_file, b_requests, raw_pairs,
                   b_deduped, unique_pairs, final_pairs, b_warned>>
\* main, step 6: insert_worlds_to_db(final_pairs), which returns or exits
BLoad(ok) ==
    /\ UNCHANGED <<dvars, lvars, svars, avars, wvars>>
    /\ b_exit = "running"
    /\ b_pc = "load"
    /\ b_loaded' = [called |-> TRUE, worlds |-> final_pairs]
    /\ b_steps' = Append(b_steps, "load")
    /\ b_exit' = IF ok THEN "exit0" ELSE "exit1"
    /\ b_pc' = IF ok THEN "done" ELSE b_pc
    /\ UNCHANGED <<b_run, b_args, b_lines, b_file0, b_file, b_requests, raw_pairs,
                   b_deduped, unique_pairs, final_pairs, b_warned>>

\* the script is started again after a run has ended: the file at
\* output_path is the one the run before left, the provider serves the same
\* snapshot
BRestart(args) ==
    /\ UNCHANGED <<dvars, lvars, svars, avars, wvars>>
    /\ b_exit \in {"exit0", "exit1", "traceback"}
    /\ b_run < MaxRuns
    /\ b_run' = b_run + 1
    /\ b_args' = args
    /\ b_file0' = b_file
    /\ b_requests' = 0
    /\ raw_pairs' = <<>>
    /\ b_deduped' = <<>>
    /\ unique_pairs' = <<>>
    /\ final_pairs' = <<>>
    /\ b_warned' = FALSE
    /\ b_loaded' = NotCalled
    /\ b_steps' = <<>>
    /\ b_pc' = "download"
    /\ b_exit' = "running"
    /\ UNCHANGED <<b_lines, b_file>>

BNext ==
    \/ \E outcome \in DownloadOutcomes : BDownload(outcome)
    \/ BParse
    \/ BDedup
    \/ BShuffle
    \/ BLimit
    \/ \E ok \in BOOLEAN : BLoad(ok)

\* runs of the script one after the other
RunsNext ==
    \/ \E args \in BulkArgs : BRestart(args)
    \/ \E outcome \in DownloadOutcomes : BDownload(outcome)
    \/ BParse
    \/ BDedup
    \/ BShuffle
    \/ BLimit
    \/ \E ok \in BOOLEAN : BLoad(ok)

(***************************************************************************)
(* The content requests of the wikipedia adapters of seed.py: the loop of  *)
(* fetch_wikipedia_batch_optimized over page_ids and the loop of           *)
(* scrape_wikipedia_books over titles.                                     *)
(***************************************************************************)
\* the list of random page ids fills at most MaxIdBatches slices and a part
MaxIdBatches == 2

\* seed.py 274: range(0, len(page_ids), 50); seed.py 94: batch_size = 50
wiki_batch_size == 50
books_batch_size == 50
\* seed.py 80, 83: the first pass stops at 50 titles
MaxTitles == 50

content_batch_size(kind) ==
    IF kind = "bulk" THEN wiki_batch_size ELSE books_batch_size

\* lengths of page_ids, or of titles, around the multiples of the slice size
IdCounts(kind) ==
    IF kind = "bulk"
    THEN {q * wiki_batch_size + r :
              q \in 0..MaxIdBatches,
              r \in {0, 1, wiki_batch_size \div 2, wiki_batch_size - 1}}
    ELSE {0, 1, MaxTitles \div 2, MaxTitles - 1, MaxTitles}

\* how a content request is answered: status 200, another status, or
\* requests.get raises (a timeout, a refused connection)
ContentAnswers == {"ok", "non200", "raise"}

\* the slice with the last id cut off
batch_ids_OneShort(ids, i, B) == SubSeq(ids, i + 1, Min(i + B, Len(ids)) - 1)
\* batch_ids = page_ids[i:i+50]; batch_titles = titles[i:i+batch_size]
batch_ids(ids, i, B) == SubSeq(ids, i + 1, Min(i + B, Len(ids)))

WInit ==
    /\ w_kind \in {"bulk", "books"}
    /\ page_ids \in {[k \in 1..n |-> k] : n \in IdCounts(w_kind)}
    /\ w_i = 0
    /\ w_requests = <<>>
    /\ w_pc = IF Len(page_ids) = 0 THEN "done" ELSE "loop"

WIdle ==
    /\ w_kind = "bulk"
    /\ page_ids = <<>>
    /\ w_i = 0
    /\ w_requests = <<>>
    /\ w_pc = "idle"

\* one iteration of the loop: the request for the extracts of one slice. A
\* status other than 200 leaves the slice out and the loop goes on; a request
\* that raises ends the function in its handler of Exception
ContentRequest(answer) ==
    /\ UNCHANGED <<dvars, lvars, svars, avars, bvars>>
    /\ w_pc = "loop"
    /\ w_requests' = Append(w_requests,
                            [ids |-> batch_ids(page_ids, w_i, content_batch_size(w_kind)),
                             answer |-> answer])
    /\ IF answer = "raise"
       THEN w_pc' = "raised" /\ w_i' = w_i
       ELSE /\ w_i' = w_i + content_batch_size(w_kind)
            /\ w_pc' = IF w_i' < Len(page_ids) THEN "loop" ELSE "done"
    /\ UNCHANGED <<w_kind, page_ids>>

WNext == \E answer \in ContentAnswers : ContentRequest(answer)

(***************************************************************************)
(* Specifications, one per component; the other components stay idle.      *)
(***************************************************************************)
InitDedup == DInit /\ LIdle /\ SIdle /\ AIdle /\ BIdle /\ WIdle
SpecDedup == InitDedup /\ [][DNext]_vars

InitLoader == LInit /\ DIdle /\ SIdle /\ AIdle /\ BIdle /\ WIdle
SpecLoader == InitLoader /\ [][LNext]_vars

InitSched == SInit /\ DIdle /\ LIdle /\ AIdle /\ BIdle /\ WIdle
SpecSched == InitSched /\ [][SNext]_vars

InitPoll == PollInit /\ DIdle /\ LIdle /\ SIdle /\ BIdle /\ WIdle
SpecPoll == InitPoll /\ [][PollNext]_vars

\* every request carries a timeout and every sleep ends, so an adapter that
\* can take a step does take it
FairSpecPoll == SpecPoll /\ WF_vars(PollNext)

InitPool == PoolInit /\ DIdle /\ LIdle /\ SIdle /\ BIdle /\ WIdle
SpecPool == InitPool /\ [][PoolNext]_vars

InitBulk == BInit /\ DIdle /\ LIdle /\ SIdle /\ AIdle /\ WIdle
SpecBulk == InitBulk /\ [][BNext]_vars

\* repeated runs over snapshots of at most one line
InitRuns == InitBulk /\ Len(b_lines) <= 1
SpecRuns == InitRuns /\ [][RunsNext]_vars

InitWiki == WInit /\ DIdle /\ LIdle /\ SIdle /\ AIdle /\ BIdle
SpecWiki == InitWiki /\ [][WNext]_vars

(***************************************************************************)
(* Claims.                                                                 *)
(***************************************************************************)
DedupDone == d_pc = "deduped"

\* the list the dedup step runs over: all_data, or raw_pairs
DedupSource == IF d_script = "seed" THEN d_input ELSE d_pairs

FirstOfKey(src, k) ==
    /\ Truthy(src[k][2])
    /\ \A m \in 1..(k - 1) :
           ~(Lower(src[m][1]) = Lower(src[k][1]) /\ Truthy(src[m][2]))

RECURSIVE FirstOccurrencesFrom(_, _)
FirstOccurrencesFrom(src, k) ==
    IF k > Len(src) THEN <<>>
    ELSE (IF FirstOfKey(src, k) THEN <<src[k]>> ELSE <<>>)
         \o FirstOccurrencesFrom(src, k + 1)

\* C2: first occurrence wins: the dedup output is the subsequence of the
\* input made of, for each key, the first candidate carrying that key with a
\* non-empty description, in input order.
C2_FirstOccurrenceWins ==
    DedupDone => d_out = FirstOccurrencesFrom(DedupSource, 1)

\* the example of the claim: [("A","x"),("a"," x "),("B","y")]
C2_Witness ==
    /\ DedupDone
    /\ d_script = "seed"
    /\ d_input = << <<<<"A">>, <<"x">>>>, <<<<"a">>, <<" ", "x", " ">>>>,
                    <<<<"B">>, <<"y">>>> >>
    /\ d_out = << <<<<"A">>, <<"x">>>>, <<<<"B">>, <<"y">>>> >>

LoaderStopped == l_exit \in {"killed", "exit1", "returned_after_error"}

\* insert commits done so far: the first commit is that of the DELETE
BatchesCommitted == Len(commits) - 1

\* C3: batch atomicity per batch: when the loader is killed or fails after
\* the commit of batch i and before the commit of batch i+1, the store holds
\* exactly the rows of batches 1..i: no row from before the load, nothing of
\* batch i+1, and not all of the records.
C3_BatchAtomicity ==
    (/\ LoaderStopped
     /\ BatchesCommitted >= 1
     /\ BatchesCommitted * batch_size(l_script) < Len(worlds))
    => /\ table = BagOfSeq(SubSeq(worlds, 1, BatchesCommitted * batch_size(l_script)))
       /\ ~BagIn(0, table)
       /\ table # BagOfSeq(worlds)
       /\ BagCardinality(table) = BatchesCommitted * batch_size(l_script)

\* killed, or failed, inside the second batch of 250 records, with INSERTs of
\* that batch executed and rows of an earlier load in the table at the start
C3_Witness ==
    /\ LoaderStopped
    /\ l_script = "seed"
    /\ Len(worlds) = 250
    /\ BatchesCommitted = 1
    /\ l_j > 0
    /\ old_rows # EmptyBag

\* C4: full replace: after insert_worlds_to_db completes without error on a
\* list, the store holds exactly the records of the list, each as often as
\* the list holds it, and no row from before the call.
C4_FullReplace ==
    l_exit = "returned" => table = BagOfSeq(worlds) /\ ~BagIn(0, table)

C4_Witness ==
    /\ l_exit = "returned"
    /\ old_rows # EmptyBag
    /\ Len(worlds) > batch_size(l_script)
    /\ Len(worlds) % batch_size(l_script) # 0

CeilDiv(n, B) == (n + B - 1) \div B

\* the commits a load of n records in batches of B is to make
ExpectedCommits(n, B) ==
    <<[deleted |-> TRUE, rows |-> 0]>>
    \o [k \in 1..CeilDiv(n, B) |->
           [deleted |-> FALSE,
            rows |-> IF k < CeilDiv(n, B) THEN B ELSE n - B * (CeilDiv(n, B) - 1)]]

\* C5: batching of commits: for n records and batch size B the loader makes,
\* after the commit of the DELETE, exactly ceil(n/B) insert commits, each of
\* B records except the last of n - B*(ceil(n/B)-1); the final count is n.
C5_BatchedCommits ==
    l_exit = "returned" =>
        /\ commits = ExpectedCommits(Len(worlds), batch_size(l_script))
        /\ BagCardinality(table) = Len(worlds)
        /\ l_script = "seed" => l_count = Len(worlds)

\* the example of the claim: 250 records, batch size 100
C5_Witness ==
    /\ l_exit = "returned"
    /\ l_script = "seed"
    /\ Len(worlds) = 250
    /\ commits = <<[deleted |-> TRUE, rows |-> 0], [deleted |-> FALSE, rows |-> 100],
                   [deleted |-> FALSE, rows |-> 100], [deleted |-> FALSE, rows |-> 50]>>
    /\ l_count = 250

HarvestOver == s_pc \in {"loading", "returned"}

ItemsOf(q) == {q[k] : k \in DOMAIN q}

\* C6: failure isolation, in both modes: when the task of a source raises,
\* that source is recorded with an empty result and every other configured
\* source is run to completion and its candidates are in the merged data.
C6_FailureIsolation ==
    HarvestOver =>
        \A src \in s_config :
            IF s_outcome[src].raised
            THEN s_result[src] = <<>>
            ELSE /\ s_task[src] = "done"
                 /\ s_result[src] = s_outcome[src].items
                 /\ ItemsOf(s_outcome[src].items) \subseteq ItemsOf(s_all_data)

\* C7: mode equivalence: on the same outcomes of the adapters, what parallel
\* mode hands to the loader is what sequential mode hands to it, whatever the
\* order the parallel tasks complete in.
C7_ModeEquivalence ==
    (HarvestOver /\ s_parallel) =>
        s_handed = HandOff(Combine(SeqHarvest(s_config, s_outcome).result))

\* C8: target bound: an adapter stops accepting once target_count candidates
\* are collected and returns at most target_count candidates.
C8_TargetBound ==
    /\ Len(a_items) <= target_count
    /\ a_returned.returned => Len(a_returned.items) <= target_count

\* C9: attempt ceiling and termination: a polling adapter issues at most
\* 2 * target_count requests, for every sequence of answers, and returns.
C9_AttemptCeiling ==
    /\ [](a_kind \in PollKinds => a_requests <= 2 * target_count)
    /\ <>(a_kind \in PollKinds => a_returned.returned)

\* a polling adapter has returned at the ceiling, short of its target, after
\* a request that raised
C9_Witness ==
    /\ a_kind \in PollKinds
    /\ a_returned.returned
    /\ a_requests = 2 * target_count
    /\ Len(a_returned.items) < target_count
    /\ a_kind = "zenquotes" /\ request_count < a_requests

\* the text of the provider's item a candidate was built of
CandidateContent(kind, cand) == IF kind = "facts" THEN cand[2][1] ELSE cand[2][2]

\* C10: adapter exhaustion is success: when the provider has yielded only
\* m < target_count unique valid items before the ceiling, the adapter
\* returns exactly those m, each once, as a normal return.
C10_ExhaustionIsSuccess ==
    (/\ a_kind \in PollKinds
     /\ a_returned.returned
     /\ Cardinality(a_offered) < target_count)
    => /\ Len(a_returned.items) = Cardinality(a_offered)
       /\ {CandidateContent(a_kind, a_returned.items[k]) :
               k \in 1..Len(a_returned.items)} = a_offered
       /\ \A k \in 1..Len(a_returned.items) :
              \E a \in Authors :
                  a_returned.items[k]
                      = PollCandidate(a_kind, a,
                            CandidateContent(a_kind, a_returned.items[k]))

\* the provider yielded one valid item, more than once, among failures, and
\* the adapter asked for two returned that one
C10_Witness ==
    /\ a_kind = "quotable"
    /\ a_returned.returned
    /\ target_count = 2
    /\ Cardinality(a_offered) = 1
    /\ Len(a_returned.items) = 1
    /\ attempts = 4

\* the key an adapter deduplicates by, of a candidate it returned
AdapterKey(kind, cand) ==
    IF kind \in PollKinds THEN CandidateContent(kind, cand) ELSE Lower(cand[1])

\* C11: source-scoped deduplication by title: the list an adapter returns
\* holds no two candidates whose titles are equal after lower-casing.
C11_SourceScopedDedup ==
    a_returned.returned =>
        \A m, n \in 1..Len(a_returned.items) :
            m < n => Lower(a_returned.items[m][1]) # Lower(a_returned.items[n][1])

\* the minimum a source asks of the length of a text
SourceMinLen(kind) ==
    CASE kind = "arxiv" -> MinSummaryLen
      [] kind = "wikipedia" -> MinExtractLen
      [] kind = "google_books" -> MinDescriptionLen
      [] OTHER -> MinQuoteLen

\* the length of the provider's text a candidate was built of
CandidateTextLen(kind, cand) ==
    IF kind \in PollKinds THEN TextLen(CandidateContent(kind, cand))
    ELSE TextLen(cand[2][1])

ValidCandidate(kind, cand) ==
    /\ Strip(cand[1]) # <<>>
    /\ CandidateTextLen(kind, cand) > SourceMinLen(kind)

\* C12: candidate invariant: every candidate an adapter accepts or returns
\* has a title that is non-empty after trimming and a text longer than the
\* minimum of its source.
C12_CandidateInvariant ==
    /\ \A k \in 1..Len(a_items) : ValidCandidate(a_kind, a_items[k])
    /\ a_returned.returned =>
           \A k \in 1..Len(a_returned.items) :
               ValidCandidate(a_kind, a_returned.items[k])

\* C13: transient failures lose nothing: an adapter that has returned short
\* of its target, whatever requests failed on the way, returns a candidate
\* for every valid item it obtained from a response that succeeded.
C13_FailuresLoseNothing ==
    (a_returned.returned /\ Len(a_returned.items) < target_count) =>
        \A item \in a_offered :
            \E k \in 1..Len(a_returned.items) :
                AdapterKey(a_kind, a_returned.items[k]) = item

\* C14: pacing between requests: in the polling adapters every request that
\* is followed by another one is followed by a pacing wait first, whatever
\* its outcome.
C14_PacingBetweenRequests ==
    a_kind \in PollKinds =>
        \A k \in 1..(Len(a_waits) - 1) : a_waits[k] > 0

\* the provider's limit, seed.py 572, 618: 5 requests per 30 seconds
ZenLimit == 5
ZenWindow == 300

\* the time from the start of request i to the start of request j, in tenths
\* of a second: the requests and the waits in between
RECURSIVE Elapsed(_, _)
Elapsed(i, j) ==
    IF i >= j THEN 0 ELSE RequestTime + a_waits[i] + Elapsed(i + 1, j)

\* C15: ZenQuotes rate limit: scrape_zenquotes never issues more than 5
\* requests without a long pause in between, and no window of 30 seconds
\* holds more than 5 of its requests.
C15_ZenRateLimit ==
    a_kind = "zenquotes" =>
        \A i \in 1..(Len(a_waits) - ZenLimit) :
            /\ \E k \in i..(i + ZenLimit - 1) : a_waits[k] = ZenPause
            /\ Elapsed(i, i + ZenLimit) >= ZenWindow

\* main waits in future.result() for a source whose task is still running
WaitsFor(src) ==
    /\ s_pc = "collect"
    /\ s_collect <= Len(Futures(s_config))
    /\ Futures(s_config)[s_collect] = src
    /\ s_task[src] = "running"

\* the task of the source has ended and main has not collected it
FinishedUncollected(src) ==
    /\ s_pc = "collect"
    /\ s_task[src] \in {"done", "raised"}
    /\ \E k \in s_collect..Len(Futures(s_config)) : Futures(s_config)[k] = src

\* C16: aggregation as tasks complete: in parallel mode a source whose task
\* has finished is never kept waiting for the completion of a slower source
\* that was submitted before it.
C16_CollectAsCompleted ==
    \A slow, fast \in SourceSet :
        ~(WaitsFor(slow) /\ FinishedUncollected(fast))

\* the harvest is over: main is at or past the step that combines the results
PastHarvest == s_pc \in {"merge", "loading", "returned"}

\* C17: harvest before load: when the dedup step and insert_worlds_to_db
\* start, no adapter task is running; in parallel mode every submitted task
\* has completed or failed.
C17_HarvestBeforeLoad ==
    (PastHarvest \/ s_handed.called) =>
        /\ \A src \in SourceSet : s_task[src] # "running"
        /\ s_parallel => \A src \in s_config : s_task[src] \in {"done", "raised"}

\* parallel mode: the loader is called after five or more tasks have ended,
\* one of them by raising
C17_Witness ==
    /\ s_parallel
    /\ s_handed.called
    /\ s_pc = "loading"
    /\ Cardinality(s_config) >= 5
    /\ \E src \in s_config : s_task[src] = "raised"

\* C18: no data race on the accumulators: any two accesses to the shared list
\* and seen_titles of a pooled adapter are made by one thread or both under
\* the lock, and the adapter hands out its result only when none of its
\* fetch tasks is running.
C18_NoDataRace ==
    /\ \A r1, r2 \in a_access : r1.thread # r2.thread => (r1.lock /\ r2.lock)
    /\ a_returned.returned => a_pending = 0

\* scrape_wikipedia_bulk reached its target before it had collected every
\* task, waited for the workers and returned
C18_Witness ==
    /\ a_kind = "wikipedia"
    /\ a_returned.returned
    /\ a_fetched > 0
    /\ a_requests = batches_needed(target_count)
    /\ Access("adapter", TRUE) \in a_access
    /\ Access("adapter", FALSE) \in a_access

\* the loader has ended on an INSERT or a commit that raised
PersistenceError ==
    /\ l_exit \in {"returned_after_error", "exit1"}
    /\ l_pc \in {"insert", "commit"}

\* C19: a persistence error during a batch is surfaced: when an INSERT or a
\* commit fails, the loader does not return normally; the run ends as a
\* failure, and the batch is not tried again.
C19_ErrorSurfaced ==
    PersistenceError =>
        /\ l_exit = "exit1"
        /\ Len(commits) <= 1 + CeilDiv(Len(worlds), batch_size(l_script))

\* C20: cleanup on a persistence error: when an INSERT or a commit fails the
\* open transaction is rolled back and the connection closed before control
\* leaves the loader; on the path without error the connection is closed too.
C20_CleanupOnError ==
    /\ PersistenceError => (tx_rows = 0 /\ tx_table = table /\ conn = "closed")
    /\ l_exit = "returned" => conn = "closed"

\* the connect call failed: the loader ended at its first statement
SetupError == LoaderStopped /\ l_pc = "connect" /\ l_exit # "killed"

\* C21: fatal setup error: when the connect call fails the loader executes
\* no DELETE and no INSERT, and the run ends as a failure (exit status 1),
\* in seed.py and in seed_agnews_remote.py.
C21_FatalSetupError ==
    SetupError =>
        /\ commits = <<>> /\ table = old_rows
        /\ ~tx_deleted /\ tx_rows = 0 /\ tx_table = table
        /\ l_exit = "exit1"

\* C22: every record in the output of the dedup step has a description that
\* is non-empty after normalization (trimming, whitespace collapsing): a
\* candidate whose description is empty or whitespace-only is not handed on.
C22_NonEmptyDescription ==
    DedupDone => \A k \in 1..Len(d_out) : normalize_text(d_out[k][2]) # <<>>

\* C23: the dedup step is idempotent: run over its own output it yields the
\* same list, same records in the same order, whatever the input list was.
C23_DedupIdempotent ==
    DedupDone =>
        IF d_script = "seed" THEN MergeLoop(d_out).unique_worlds = d_out
        ELSE deduplicate_by_title(d_out) = d_out

\* a dedup step that dropped something and kept two records
C23_Witness ==
    /\ DedupDone
    /\ Len(d_out) = 2
    /\ Len(DedupSource) = 3
    /\ d_script = "seed"

\* the candidates of all_data the merge loop drops because their key was
\* taken by an earlier survivor, their own description being non-empty
RECURSIVE DroppedDuplicatesFrom(_, _, _)
DroppedDuplicatesFrom(all_data, k, st) ==
    IF k > Len(all_data) THEN 0
    ELSE (IF title_lower(all_data[k][1]) \in st.seen /\ Truthy(all_data[k][2])
          THEN 1 ELSE 0)
         + DroppedDuplicatesFrom(all_data, k + 1, MergeStep(st, all_data[k]))

DroppedDuplicates(all_data) ==
    DroppedDuplicatesFrom(all_data, 1,
                          [seen |-> {}, unique_worlds |-> <<>>, duplicates |-> 0])

\* the candidates of all_data with an empty description
DroppedEmpty(all_data) ==
    Cardinality({k \in 1..Len(all_data) : ~Truthy(all_data[k][2])})

\* C24 as stated: the merge loop of seed.py exposes the number of dropped
\* duplicates apart from the number of dropped empty-description items, and
\* survivors plus dropped items equals the number of collected candidates.
C24_SeparateDropCounts ==
    (DedupDone /\ d_script = "seed") =>
        /\ d_duplicates = DroppedDuplicates(d_input)
        /\ Len(d_out) + d_duplicates + DroppedEmpty(d_input) = Len(d_input)

\* C24: the merge loop of seed.py exposes one counter, duplicates, that counts
\* the dropped duplicates and the dropped empty-description items together;
\* survivors plus this counter equals the number of collected candidates, so
\* the output is never longer than the collected list.
C24_DropAccounting ==
    (DedupDone /\ d_script = "seed") =>
        /\ d_duplicates = DroppedDuplicates(d_input) + DroppedEmpty(d_input)
        /\ Len(d_out) + d_duplicates = Len(d_input)
        /\ Len(d_out) <= Len(d_input)

\* a run of the merge loop that dropped a duplicate and an empty description
C24_Witness ==
    /\ DedupDone /\ d_script = "seed"
    /\ DroppedDuplicates(d_input) = 1
    /\ DroppedEmpty(d_input) = 1
    /\ Len(d_out) = 1

\* the steps of the bulk import in their order, for a run with or without
\* the shuffle
StepOrder(shuffle) ==
    IF shuffle THEN <<"download", "parse", "dedup", "shuffle", "limit", "load">>
    ELSE <<"download", "parse", "dedup", "limit", "load">>

\* C25: seed_agnews_remote.py runs its steps in the order download (or
\* reuse), parse, deduplicate, shuffle (only if requested), limit, load: the
\* steps run so far are a prefix of this order, so no step is run before its
\* predecessor and none but the shuffle is jumped over; each step has the
\* whole result of the one before; the loader is called in the last step only.
C25_StepOrder ==
    /\ Len(b_steps) <= Len(StepOrder(b_args.shuffle))
    /\ b_steps = SubSeq(StepOrder(b_args.shuffle), 1, Len(b_steps))
    /\ b_pc \in {"dedup", "shuffle", "limit", "load", "done"} /\ ~b_args.download_only
           => (~ReadAborts(b_lines) /\ raw_pairs = load_agnews_pairs(b_lines))
    /\ b_pc \in {"shuffle", "limit", "load", "done"} /\ ~b_args.download_only
           => b_deduped = deduplicate_by_title(raw_pairs)
    /\ b_loaded.called
           => /\ b_steps = StepOrder(b_args.shuffle)
              /\ b_loaded.worlds = final_pairs
    /\ (b_exit = "exit0" /\ ~b_args.download_only) => b_loaded.called

\* a run with the shuffle that has loaded its rows
C25_Witness ==
    /\ b_exit = "exit0"
    /\ b_loaded.called
    /\ b_args.shuffle
    /\ Len(b_steps) = 6
    /\ Len(b_loaded.worlds) >= 2

\* download_agnews has been called
DownloadCalled == Len(b_steps) >= 1

\* C26: download skip: download_agnews issues no network request and leaves
\* the file as it was when the file exists and the force flag is not set; it
\* attempts the download when the file is missing or the force flag is set.
C26_DownloadSkip ==
    /\ ~DownloadCalled => (b_requests = 0 /\ b_file = b_file0)
    /\ (DownloadCalled /\ b_file0 # "missing" /\ ~b_args.force_download)
           => (b_requests = 0 /\ b_file = b_file0)
    /\ (DownloadCalled /\ (b_file0 = "missing" \/ b_args.force_download))
           => b_requests = 1

\* a run that found the file and went on to parse it without a request
C26_Witness ==
    /\ DownloadCalled
    /\ b_file0 = "old" /\ ~b_args.force_download
    /\ b_requests = 0 /\ b_file = "old"
    /\ b_pc = "dedup"

\* a download failed: a request was issued and download_agnews did not return
DownloadFailed == b_pc = "download" /\ b_exit \in {"exit1", "traceback"}

\* C27: failed download: when the download fails at any point (connection,
\* HTTP status, or in the loop that writes the chunks) no partial file is
\* left at the output path, the process exits with a non-zero status, and no
\* parse, dedup or store step is run.
C27_FailedDownload ==
    DownloadFailed =>
        /\ b_file # "partial"
        /\ b_exit \in {"exit1", "traceback"}
        /\ b_steps = <<"download">>
        /\ raw_pairs = <<>> /\ unique_pairs = <<>> /\ ~b_loaded.called

\* the limit step has run; k is the requested limit, n the number of
\* deduplicated records
Limited == b_steps # <<>> /\ b_steps[Len(b_steps)] \in {"limit", "load"}
RequestedLimit == b_args.limit
DedupedCount == Len(b_deduped)

\* the records of a list, as a set
RecordsOf(pairs) == {pairs[k] : k \in 1..Len(pairs)}

\* C28: limit after shuffle: the shuffle is applied only when requested and
\* before the limit; for a limit k >= 0 the rows handed to the loader are
\* min(k, n) distinct records of the n deduplicated records: the head of the
\* shuffled list with the shuffle, exactly the first min(k, n) records in
\* file order without it.
C28_LimitAfterShuffle ==
    (Limited /\ RequestedLimit >= 0) =>
        /\ ~b_args.shuffle => unique_pairs = b_deduped
        /\ unique_pairs \in Shuffles(b_deduped)
        /\ final_pairs = SubSeq(unique_pairs, 1, Min(RequestedLimit, DedupedCount))
        /\ Len(final_pairs) = Min(RequestedLimit, DedupedCount)
        /\ Cardinality(RecordsOf(final_pairs)) = Len(final_pairs)
        /\ RecordsOf(final_pairs) \subseteq RecordsOf(b_deduped)
        /\ ~b_args.shuffle =>
               final_pairs = SubSeq(b_deduped, 1, Min(RequestedLimit, DedupedCount))
        /\ b_loaded.called => b_loaded.worlds = final_pairs

\* with the shuffle the loader got two of three records, and not the first
\* two of file order: the first record of the file was left out
C28_Witness ==
    /\ b_loaded.called
    /\ b_args.shuffle
    /\ DedupedCount = 3 /\ RequestedLimit = 2
    /\ RecordsOf(b_loaded.worlds) = {b_deduped[2], b_deduped[3]}

\* C29: limiting: for every requested limit k >= 0 and n deduplicated rows
\* the limit step yields exactly min(k, n) rows; n < k only logs a warning:
\* the run goes on to the load step and hands the n rows to the loader.
C29_Limiting ==
    (Limited /\ RequestedLimit >= 0) =>
        /\ Len(final_pairs) = Min(RequestedLimit, Len(unique_pairs))
        /\ b_warned = (Len(unique_pairs) < RequestedLimit)
        /\ Len(unique_pairs) < RequestedLimit =>
               /\ final_pairs = unique_pairs
               /\ \/ b_pc = "load" /\ b_exit = "running"
                  \/ b_loaded.called /\ b_loaded.worlds = unique_pairs

\* fewer rows than requested were loaded, after the warning
C29_Witness ==
    /\ b_loaded.called
    /\ b_exit = "exit0"
    /\ b_warned
    /\ RequestedLimit = 3
    /\ Len(b_loaded.worlds) = 2

\* the lines load_agnews_pairs is to skip: empty, not valid JSON (text that
\* json.loads rejects, or bytes that are no text at all), not an array of at
\* least two elements, or with an empty normalized title or description
BadLine(line) ==
    \/ line.kind \in {"empty", "badjson", "undecodable", "short"}
    \/ normalize_text(line.title) = <<>>
    \/ normalize_text(line.desc) = <<>>

GoodLine(line) == ~BadLine(line)

\* the pair a good line yields
PairOf(line) == <<normalize_text(line.title), normalize_text(line.desc)>>

\* the pairs of the good lines, in file order
GoodPairs(lines) ==
    LET good == SelectSeq(lines, GoodLine)
    IN  [k \in 1..Len(good) |-> PairOf(good[k])]

\* load_agnews_pairs has run
Parsed == d_script = "agnews" /\ d_pc # "input"

\* C30: parsing skips bad lines without aborting: a line that is empty, is
\* not valid JSON, is not an array of at least two elements, or has an empty
\* normalized title or description is skipped, and every other line of the
\* file, before and after it, yields its pair, in file order.
C30_SkipBadLines == Parsed => d_pairs = GoodPairs(d_input)

\* a text in normal form: no whitespace at either end, no newline, no two
\* whitespace characters in a row
NormalForm(t) ==
    /\ Strip(t) = t
    /\ \A k \in 1..Len(t) : t[k] # "\n"
    /\ \A k \in 1..(Len(t) - 1) : ~(IsSpace(t[k]) /\ IsSpace(t[k + 1]))

\* C31: normalization before keying in the bulk pipeline: every title and
\* description that reaches deduplicate_by_title equals its own normalization
\* and is in normal form; normalize_text is idempotent on the raw fields of
\* the file; the dedup key of a title is its lower-cased trimmed title.
C31_NormalizedBeforeKey ==
    /\ (d_script = "agnews" /\ d_pc \in {"parsed", "deduped"}) =>
           \A k \in 1..Len(d_pairs) :
               /\ normalize_text(d_pairs[k][1]) = d_pairs[k][1]
               /\ normalize_text(d_pairs[k][2]) = d_pairs[k][2]
               /\ NormalForm(d_pairs[k][1]) /\ NormalForm(d_pairs[k][2])
               /\ key(d_pairs[k][1]) = Lower(Strip(d_pairs[k][1]))
    /\ d_script = "agnews" =>
           \A k \in 1..Len(d_input) :
               /\ normalize_text(normalize_text(d_input[k].title))
                      = normalize_text(d_input[k].title)
               /\ normalize_text(normalize_text(d_input[k].desc))
                      = normalize_text(d_input[k].desc)

\* the parse step has normalized a padded title and a description with a
\* newline, and the dedup step has run over the result
C31_Witness ==
    /\ d_script = "agnews" /\ d_pc = "deduped"
    /\ Len(d_input) = 1
    /\ d_input[1].title = <<" ", "A">>
    /\ d_input[1].desc = <<"x", " ", "\n", "y">>
    /\ d_pairs = <<<<<<"A">>, <<"x", " ", "y">>>>>>

\* C32: hand-off unchanged: the rows the loader of the bulk pipeline sends to
\* the store in its INSERTs are the list it was called with, the limited
\* slice: at every moment a prefix of it, same records in the same order, and
\* when the loader returns the whole list, which is then what the table holds.
C32_HandOffUnchanged ==
    l_script = "agnews" =>
        /\ Len(l_sent) <= Len(worlds)
        /\ l_sent = SubSeq(worlds, 1, Len(l_sent))
        /\ l_exit = "returned" =>
               (l_sent = worlds /\ table = BagOfSeq(worlds))

\* the bulk loader has returned after two batches
C32_Witness ==
    /\ l_script = "agnews"
    /\ l_exit = "returned"
    /\ Len(worlds) = batch_size_agnews + 1
    /\ l_sent = worlds
    /\ Len(commits) = 3

\* the ids or titles of the content requests sent so far, in order
RECURSIVE RequestedIds(_)
RequestedIds(requests) ==
    IF requests = <<>> THEN <<>>
    ELSE requests[1].ids \o RequestedIds(Tail(requests))

\* C33: batched provider queries: the extracts of n page ids or titles are
\* asked for in consecutive requests of at most 50 items each; the requests
\* sent so far cover a prefix of the list, each id or title once; when the
\* loop has run to its end every id or title was in exactly one request and
\* ceil(n/50) content requests were sent.
C33_BatchedQueries ==
    w_pc # "idle" =>
        /\ \A k \in 1..Len(w_requests) :
               /\ Len(w_requests[k].ids) >= 1
               /\ Len(w_requests[k].ids) <= 50
               /\ k < Len(w_requests) => Len(w_requests[k].ids) = 50
        /\ RequestedIds(w_requests)
               = SubSeq(page_ids, 1, Len(RequestedIds(w_requests)))
        /\ Len(w_requests) <= CeilDiv(Len(page_ids), 50)
        /\ w_pc = "done" =>
               /\ RequestedIds(w_requests) = page_ids
               /\ Len(w_requests) = CeilDiv(Len(page_ids), 50)

\* 101 page ids were asked for in three requests
C33_Witness ==
    /\ w_kind = "bulk"
    /\ w_pc = "done"
    /\ Len(page_ids) = 2 * wiki_batch_size + 1
    /\ Len(w_requests) = 3
    /\ Len(w_requests[3].ids) = 1

\* the run found a file at the output path and skipped the download
DownloadSkipped == DownloadCalled /\ b_requests = 0 /\ b_file0 # "missing"

\* C37: a file at the output path is always a complete snapshot: across any
\* sequence of runs, with or without force, with downloads that succeed or
\* are interrupted by any kind of error, a run that finds a file and skips
\* the download finds the result of a download that completed, never a
\* partial file.
C37_CompleteSnapshot == DownloadSkipped => b_file \in {"old", "new"}

\* C34: download-only mode: with --download-only the bulk importer runs at
\* most the download step and then exits with status 0; it never parses the
\* file and never calls the loader, so the store is not connected to, deleted
\* from or inserted into.
C34_DownloadOnly ==
    (b_pc # "idle" /\ b_args.download_only) =>
        /\ b_steps \in {<<>>, <<"download">>}
        /\ raw_pairs = <<>> /\ unique_pairs = <<>> /\ final_pairs = <<>>
        /\ ~b_loaded.called
        /\ (DownloadCalled /\ ~DownloadFailed) => (b_exit = "exit0" /\ b_pc = "done")

\* a download-only run that fetched the file and ended
C34_Witness ==
    /\ b_args.download_only
    /\ b_exit = "exit0"
    /\ b_file0 = "missing" /\ b_file = "new"
    /\ b_lines # <<>>

\* main of seed.py is past its merge loop
Merged == s_pc \in {"returned", "loading"}

\* C35: too few results leave the store untouched: when the harvest of
\* seed.py yields fewer than 10 unique records after deduplication, main
\* returns without calling the loader: no statement is sent to the store.
C35_TooFewLeavesStore ==
    (Merged /\ Len(MergeLoop(s_all_data).unique_worlds) < 10) =>
        /\ ~s_handed.called
        /\ s_pc = "returned"
        /\ l_pc = "idle" /\ conn = "none" /\ commits = <<>> /\ table = old_rows

\* a harvest of nine unique records, one short of the minimum
C35_Witness ==
    /\ Merged
    /\ Len(MergeLoop(s_all_data).unique_worlds) = 9
    /\ Len(s_all_data) > 9
    /\ s_pc = "returned"

\* C36: an empty-description candidate does not reserve its key: in the
\* merge loop of seed.py a candidate with a non-empty description is kept
\* whenever every earlier candidate with the same lower-cased title has an
\* empty description.
C36_EmptyDoesNotReserveKey ==
    (DedupDone /\ d_script = "seed") =>
        \A j \in 1..Len(d_input) :
            (/\ Truthy(d_input[j][2])
             /\ \A i \in 1..(j - 1) :
                    title_lower(d_input[i][1]) = title_lower(d_input[j][1])
                        => ~Truthy(d_input[i][2]))
            => \E k \in 1..Len(d_out) : d_out[k] = d_input[j]

\* a title first seen with an empty description, then with a description
C36_Witness ==
    /\ DedupDone /\ d_script = "seed"
    /\ d_input = << <<<<"A">>, <<>>>>, <<<<"a">>, <<"x">>>> >>
    /\ d_out = << <<<<"a">>, <<"x">>>> >>
    /\ d_duplicates = 1

====
